---- MODULE Spec2Model ----
(***************************************************************************)
(* Model of the analyze-data edge function (the version with model         *)
(* selection and artifact detection) of data-explainer.                    *)
(*                                                                         *)
(* Strings are TLA+ strings; optional request fields are sequences of      *)
(* length 0 (undefined) or 1 (the value).  Temperatures are in tenths      *)
(* (7 stands for 0.7).                                                     *)
(***************************************************************************)
EXTENDS Integers, Sequences, FiniteSets, TLC

VARIABLES
  pc,                \* position of the serve handler
  req,               \* the request being handled
  env,               \* the deployment: which source, API key present
  idx,               \* index of the next file of the for..of loop
  fileContents,      \* let fileContents = ''
  openAIRequestBody, \* the outbound body, << >> until it is built
  llmCalls,          \* number of POSTs issued to the provider
  downloads,         \* storage downloads issued, in order, with their results
  authAsked,         \* number of auth.getUser calls
  authResult,        \* what auth.getUser answered, << >> until it has
  user,              \* the authenticated user's id, << >> until then
  response,          \* the Response returned to the caller, << >> until then
  reply,             \* what the fetch of the provider settled with, << >>
                     \* until it has
  dtext,             \* a text handed to detectDownloadableContent
  dcount,            \* the number of pieces dtext was put together from
  dresult,           \* what detectDownloadableContent returned for dtext
  dblocks,           \* the segments dtext was put together from, when it
                     \* was put together from whole fenced blocks
  session,           \* the account signed in in the browser, << >> if none
  upload,            \* the state of the CSVUpload component
  storageOps,        \* the storage requests the last handler run in the
                     \* browser issued
  ui,                \* the state of the AnalyzeData page
  timers,            \* the setTimeout callbacks of the page still to run
  invocations,       \* the invocations of 'analyze-data' not yet settled
  toast              \* the last toast of the AnalyzeData page, << >> until
                     \* there is one

vars == <<pc, req, env, idx, fileContents, openAIRequestBody, llmCalls,
          downloads, authAsked, authResult, user, response, reply, dtext,
          dcount, dresult, dblocks, session, upload, storageOps, ui, timers,
          invocations, toast>>

serveVars == <<pc, req, env, idx, fileContents, openAIRequestBody, llmCalls,
               downloads, authAsked, authResult, user, response, reply>>

detectVars == <<dtext, dcount, dresult, dblocks>>

storageVars == <<session, upload, storageOps>>

pageVars == <<ui, timers, invocations, toast>>

clientVars == <<storageVars, pageVars>>

----------------------------------------------------------------------------
(* Bounds and input domains                                                *)

MaxFiles == 2

MaxChars == 7

MaxPieces == 5

\* the characters of the texts of the CSV-like runs
CsvChars == {"1", ",", "\n", " "}

\* the pieces of the texts of the classifier runs ("~" is the backquote)
Pieces == {"1", ",1", "\n", "[", "]", "~~~csv\n", "\n~~~"}

FileNames == {"a.csv", "b.csv"}

Prompts == {"", " \n", "sum it"}

Temperatures == {0, 20}

MaxTokenValues == {1, 999, 4000}

Users == {"u1"}

\* the two sources of the function: the one that takes a model from the
\* request and classifies the reply (in the migration file), and
\* functions/analyze-data/index.ts, which always asks GPT-5
Sources == {"model-aware", "gpt5-only"}

\* mutant: the requirements folder is tried first
Folders_Swapped == <<"certification-requirements", "farm-data">>

\* the two candidate folders, in the order they are tried
Folders == <<"farm-data", "certification-requirements">>

Models == {"gpt-5-2025-08-07", "o3-mini", "o4-mini", "gpt-4.1",
           "gpt-4o-mini", "mistral-large"}

Undefined == << >>

Opt(S) == {Undefined} \cup {<<v>> : v \in S}

SeqsUpTo(S, n) == UNION {[1..k -> S] : k \in 0..n}

----------------------------------------------------------------------------
(* String helpers (JavaScript String methods)                              *)

Ch(s, i) == SubSeq(s, i, i)

\* String.prototype.includes
Includes(s, sub) ==
  \E i \in 1..(Len(s) - Len(sub) + 1) : SubSeq(s, i, i + Len(sub) - 1) = sub

IsSpace(c) == c \in {" ", "\n", "\t", "\r"}

RECURSIVE TrimStart(_)
TrimStart(s) ==
  IF Len(s) > 0 /\ IsSpace(Ch(s, 1)) THEN TrimStart(SubSeq(s, 2, Len(s))) ELSE s

RECURSIVE TrimEnd(_)
TrimEnd(s) ==
  IF Len(s) > 0 /\ IsSpace(Ch(s, Len(s)))
  THEN TrimEnd(SubSeq(s, 1, Len(s) - 1)) ELSE s

\* String.prototype.trim
Trim(s) == TrimEnd(TrimStart(s))

Max(a, b) == IF a >= b THEN a ELSE b

Min(S) == CHOOSE m \in S : \A n \in S : m <= n

\* JavaScript `x || d` on an optional number: undefined and 0 are falsy
OrNum(x, d) == IF x = Undefined \/ x[1] = 0 THEN d ELSE x[1]

\* JavaScript `x || d` on an optional string: undefined and '' are falsy
OrStr(x, d) == IF x = Undefined \/ x[1] = "" THEN d ELSE x[1]

----------------------------------------------------------------------------
(* Request Adapter                                                         *)

DefaultModel == "gpt-5-2025-08-07"

DefaultMaxTokens == 2000

MinCompletionTokens == 1000

DefaultTemperature == 7

SystemPrompt == "You are a helpful data analyst."

\* const isGPT5OrNewer = (model || '').includes('gpt-5') || ...
isGPT5OrNewer(model) ==
  \/ Includes(OrStr(model, ""), "gpt-5")
  \/ Includes(OrStr(model, ""), "o3")
  \/ Includes(OrStr(model, ""), "o4")
  \/ Includes(OrStr(model, ""), "gpt-4.1")

\* fileContents += `\n\n=== File: ${fileName} ===\n${text}`
Section(fileName, text) == "\n\n=== File: " \o fileName \o " ===\n" \o text

\* const fullPrompt = `${prompt}\n\nHere are the contents ...`
fullPrompt(prompt, contents) ==
  prompt \o "\n\nHere are the contents of the selected data files:\n"
         \o contents
         \o "\n\nPlease analyze this data according to the prompt above."

\* mutant: the reasoning branch passes maxTokens through without the floor
BuildRequestBody_NoFloor(r, contents) ==
  LET base == [model |-> OrStr(r.model, DefaultModel),
               messages |-> <<[role |-> "system", content |-> SystemPrompt],
                              [role |-> "user",
                               content |-> fullPrompt(r.prompt, contents)]>>]
  IN IF isGPT5OrNewer(r.model)
     THEN base @@ ("max_completion_tokens" :> OrNum(r.maxTokens, DefaultMaxTokens))
     ELSE base @@ ("max_tokens" :> OrNum(r.maxTokens, DefaultMaxTokens))
               @@ ("temperature" :> OrNum(r.temperature, DefaultTemperature))

\* the body as it stands when fetch is called
BuildRequestBody(r, contents) ==
  LET base == [model |-> OrStr(r.model, DefaultModel),
               messages |-> <<[role |-> "system", content |-> SystemPrompt],
                              [role |-> "user",
                               content |-> fullPrompt(r.prompt, contents)]>>]
  IN IF isGPT5OrNewer(r.model)
     THEN base @@ ("max_completion_tokens" :>
                     Max(OrNum(r.maxTokens, DefaultMaxTokens), MinCompletionTokens))
     ELSE base @@ ("max_tokens" :> OrNum(r.maxTokens, DefaultMaxTokens))
               @@ ("temperature" :> OrNum(r.temperature, DefaultTemperature))

\* index.ts: model 'gpt-5-2025-08-07' and max_completion_tokens, whatever the
\* request says
BuildRequestBodyGPT5(r, contents) ==
  [model |-> DefaultModel,
   messages |-> <<[role |-> "system", content |-> SystemPrompt],
                  [role |-> "user", content |-> fullPrompt(r.prompt, contents)]>>,
   max_completion_tokens |->
     Max(OrNum(r.maxTokens, DefaultMaxTokens), MinCompletionTokens)]

----------------------------------------------------------------------------
(* The serve handler                                                       *)

NoValue == << >>

\* the browser before anything was done in it: nobody signed in, the
\* components as their useState calls create them, nothing in flight
ClientIdle ==
  /\ session = NoValue
  /\ upload = [variant |-> "two-folder", file |-> NoValue,
               fileType |-> "farm-data", uploadedFiles |-> {}]
  /\ storageOps = {}
  /\ ui = [selectedFiles |-> << >>, prompt |-> "", temperature |-> 7,
           maxTokens |-> 1000, llmOutput |-> "", analysisStatus |-> "idle",
           errorMessage |-> "", apiStatistics |-> NoValue]
  /\ timers = 0
  /\ invocations = 0
  /\ toast = NoValue

ErrorResponse(status, msg) == [status |-> status, kind |-> "error", error |-> msg]

Requests ==
  \* a CORS preflight, a POST whose body is not JSON, and POSTs with a body
  {[method |-> "OPTIONS", bodyOk |-> FALSE, authHeader |-> FALSE,
    selectedFiles |-> Undefined, prompt |-> "", temperature |-> Undefined,
    maxTokens |-> Undefined, model |-> Undefined]}
  \cup
  {[method |-> "POST", bodyOk |-> FALSE, authHeader |-> h,
    selectedFiles |-> Undefined, prompt |-> "", temperature |-> Undefined,
    maxTokens |-> Undefined, model |-> Undefined] : h \in BOOLEAN}
  \cup
  [method : {"POST"}, bodyOk : {TRUE}, authHeader : BOOLEAN,
   selectedFiles : Opt(SeqsUpTo(FileNames, MaxFiles)), prompt : Prompts,
   temperature : Opt(Temperatures), maxTokens : Opt(MaxTokenValues),
   model : Opt(Models)]

Init ==
  /\ pc = "idle"
  /\ req = NoValue
  /\ env = NoValue
  /\ idx = 0
  /\ fileContents = ""
  /\ openAIRequestBody = NoValue
  /\ llmCalls = 0
  /\ downloads = << >>
  /\ authAsked = 0
  /\ authResult = NoValue
  /\ user = NoValue
  /\ response = NoValue
  /\ reply = NoValue
  /\ dtext = ""
  /\ dcount = 0
  /\ dresult = [hasFile |-> FALSE]
  /\ dblocks = << >>
  /\ ClientIdle

\* a request arrives at the deployed function
Receive ==
  /\ pc = "idle"
  /\ \E r \in Requests, k \in BOOLEAN, src \in Sources :
       /\ req' = r
       /\ env' = [apiKey |-> k, source |-> src]
  /\ pc' = "start"
  /\ UNCHANGED <<idx, fileContents, openAIRequestBody, llmCalls, downloads,
                 authAsked, authResult, user, response, reply, detectVars, clientVars>>

Respond(r) ==
  /\ response' = r
  /\ pc' = "done"

\* from the entry of the handler to the await of auth.getUser
Start ==
  /\ pc = "start"
  /\ IF req.method = "OPTIONS"
     THEN Respond([status |-> 200, kind |-> "preflight"]) /\ UNCHANGED authAsked
     ELSE IF ~req.bodyOk
     THEN Respond(ErrorResponse(500, "Internal server error")) /\ UNCHANGED authAsked
     ELSE IF ~env.apiKey
     THEN Respond(ErrorResponse(500, "OpenAI API key not configured")) /\ UNCHANGED authAsked
     ELSE IF ~req.authHeader
     THEN Respond(ErrorResponse(401, "No authorization header")) /\ UNCHANGED authAsked
     ELSE /\ authAsked' = authAsked + 1
          /\ pc' = "getUser"
          /\ UNCHANGED response
  /\ UNCHANGED <<req, env, idx, fileContents, openAIRequestBody, llmCalls,
                 downloads, authResult, user, reply, detectVars, clientVars>>

\* { data: { user }, error: userError } as auth.getUser may answer
AuthResults == [user : Users \cup {""}, error : BOOLEAN]

\* mutant: only the error is looked at, a missing user passes
AuthOk_ErrorOnly(o) == ~o.error

\* the negation of `userError || !user`
AuthOk(o) == ~(o.error \/ o.user = "")

\* auth.getUser resolves; the for..of loop is entered
GetUser ==
  /\ pc = "getUser"
  /\ \E o \in AuthResults :
       /\ authResult' = <<o>>
       /\ IF ~AuthOk(o)
          THEN Respond(ErrorResponse(401, "Unauthorized")) /\ UNCHANGED <<user, idx>>
          ELSE
            /\ user' = <<o.user>>
            /\ IF req.selectedFiles = Undefined
               \* selectedFiles is not iterable: TypeError, caught by the outer catch
               THEN Respond(ErrorResponse(500, "selectedFiles is not iterable"))
                    /\ UNCHANGED idx
               ELSE idx' = 1 /\ pc' = "loop" /\ UNCHANGED response
  /\ UNCHANGED <<req, env, fileContents, openAIRequestBody, llmCalls,
                 downloads, authAsked, reply, detectVars, clientVars>>

selectedFiles == req.selectedFiles[1]

\* what a stored object reads as: the bucket is keyed by path
FileTexts(folder, fileName) == {"", folder \o "#" \o fileName}

\* storage.from('csv-files').download(`${user.id}/<folder>/${fileName}`)
\* "ok": data, then data.text() gives the text; "error": { error };
\* "throw": the download or the read of the blob rejects
DownloadResults(folder, fileName) ==
  {[outcome |-> "ok", text |-> t] : t \in FileTexts(folder, fileName)}
  \cup {[outcome |-> "error", text |-> ""], [outcome |-> "throw", text |-> ""]}

Download(folder, fileName, res) ==
  [idx |-> idx, folder |-> folder, fileName |-> fileName,
   path |-> user[1] \o "/" \o folder \o "/" \o fileName,
   outcome |-> res.outcome, text |-> res.text]

\* mutant: the section is put in front
AppendSection_Prepend(contents, fileName, text) == Section(fileName, text) \o contents

\* fileContents += ...
AppendSection(contents, fileName, text) == contents \o Section(fileName, text)

\* loop body up to the result of the farm-data download
DownloadFarm ==
  /\ pc = "loop"
  /\ idx <= Len(selectedFiles)
  /\ LET fileName == selectedFiles[idx] IN
     \E res \in DownloadResults(Folders[1], fileName) :
       /\ downloads' = Append(downloads, Download(Folders[1], fileName, res))
       /\ CASE res.outcome = "ok" ->
                 /\ fileContents' = AppendSection(fileContents, fileName, res.text)
                 /\ idx' = idx + 1
                 /\ pc' = "loop"
            [] res.outcome = "error" ->
                 /\ pc' = "cert"
                 /\ UNCHANGED <<fileContents, idx>>
            [] res.outcome = "throw" ->
                 /\ idx' = idx + 1
                 /\ pc' = "loop"
                 /\ UNCHANGED fileContents
  /\ UNCHANGED <<req, env, openAIRequestBody, llmCalls, authAsked, authResult,
                 user, response, reply, detectVars, clientVars>>

\* mutant: a file found in neither folder ends the loop (break for continue)
DownloadCert_Break ==
  /\ pc = "cert"
  /\ LET fileName == selectedFiles[idx] IN
     \E res \in DownloadResults(Folders[2], fileName) :
       /\ downloads' = Append(downloads, Download(Folders[2], fileName, res))
       /\ IF res.outcome = "ok"
          THEN fileContents' = AppendSection(fileContents, fileName, res.text)
               /\ idx' = idx + 1
          ELSE UNCHANGED fileContents /\ idx' = Len(selectedFiles) + 1
  /\ pc' = "loop"
  /\ UNCHANGED <<req, env, openAIRequestBody, llmCalls, authAsked, authResult,
                 user, response, reply, detectVars, clientVars>>

\* if (error) { ... download from certification-requirements ... }
DownloadCert ==
  /\ pc = "cert"
  /\ LET fileName == selectedFiles[idx] IN
     \E res \in DownloadResults(Folders[2], fileName) :
       /\ downloads' = Append(downloads, Download(Folders[2], fileName, res))
       /\ IF res.outcome = "ok"
          THEN fileContents' = AppendSection(fileContents, fileName, res.text)
          ELSE UNCHANGED fileContents
  /\ idx' = idx + 1
  /\ pc' = "loop"
  /\ UNCHANGED <<req, env, openAIRequestBody, llmCalls, authAsked, authResult,
                 user, response, reply, detectVars, clientVars>>

\* after the loop: the 400, or the body is built and the POST is issued
CallOpenAI ==
  /\ pc = "loop"
  /\ idx > Len(selectedFiles)
  /\ IF fileContents = ""
     THEN /\ Respond(ErrorResponse(400,
                 "No file contents could be read from the selected files"))
          /\ UNCHANGED <<openAIRequestBody, llmCalls>>
     ELSE /\ openAIRequestBody' =
               IF env.source = "model-aware"
               THEN BuildRequestBody(req, fileContents)
               ELSE BuildRequestBodyGPT5(req, fileContents)
          /\ llmCalls' = llmCalls + 1
          /\ pc' = "fetch"
          /\ UNCHANGED response
  /\ UNCHANGED <<req, env, idx, fileContents, downloads, authAsked,
                 authResult, user, reply, detectVars, clientVars>>

----------------------------------------------------------------------------
(* Properties of the request adapter                                        *)

ReasoningPrefixes == {"gpt-5", "o3", "o4", "gpt-4.1"}

\* the REASONING family as the specification words it
InReasoningFamily(m) == \E f \in ReasoningPrefixes : Includes(m, f)

BodyBuilt == openAIRequestBody # NoValue

Requested(x, d) == IF x = Undefined THEN d ELSE x[1]

\* C1: for a model identifier of the REASONING family the body has no
\* temperature and no max_tokens, and max_completion_tokens is
\* max(maxTokens if supplied else 2000, 1000), so never below 1000.
C1_ReasoningBody ==
  (BodyBuilt /\ req.model # Undefined /\ InReasoningFamily(req.model[1])) =>
    /\ "temperature" \notin DOMAIN openAIRequestBody
    /\ "max_tokens" \notin DOMAIN openAIRequestBody
    /\ "max_completion_tokens" \in DOMAIN openAIRequestBody
    /\ openAIRequestBody.max_completion_tokens =
         Max(Requested(req.maxTokens, 2000), 1000)
    /\ openAIRequestBody.max_completion_tokens >= 1000

\* a reasoning model asked for fewer than 1000 tokens, and the body is built
C1_Witness ==
  /\ BodyBuilt
  /\ req.model = <<"o4-mini">>
  /\ req.maxTokens = <<999>>
  /\ openAIRequestBody.max_completion_tokens = 1000

\* C2: for a model identifier outside the REASONING family the body has no
\* max_completion_tokens, max_tokens is the caller's maxTokens (2000 when
\* absent) and temperature is the caller's temperature, 0.0 included (0.7
\* when absent).  Stated of the source that takes the model from the request.
C2_LegacyBody ==
  (BodyBuilt /\ env.source = "model-aware"
     /\ req.model # Undefined /\ ~InReasoningFamily(req.model[1])) =>
    /\ "max_completion_tokens" \notin DOMAIN openAIRequestBody
    /\ "max_tokens" \in DOMAIN openAIRequestBody
    /\ openAIRequestBody.max_tokens = Requested(req.maxTokens, 2000)
    /\ "temperature" \in DOMAIN openAIRequestBody
    /\ openAIRequestBody.temperature = Requested(req.temperature, 7)

\* C3: the shape of the body agrees with the class of the model identifier
\* the body carries, also when the baseline model was substituted.
C3_ShapeMatchesBodyModel ==
  BodyBuilt =>
    IF InReasoningFamily(openAIRequestBody.model)
    THEN /\ "temperature" \notin DOMAIN openAIRequestBody
         /\ "max_tokens" \notin DOMAIN openAIRequestBody
         /\ "max_completion_tokens" \in DOMAIN openAIRequestBody
    ELSE /\ "temperature" \in DOMAIN openAIRequestBody
         /\ "max_tokens" \in DOMAIN openAIRequestBody

----------------------------------------------------------------------------
(* Properties of the guards of the handler                                  *)

HasBody == req # NoValue /\ req.method = "POST" /\ req.bodyOk

Answered == pc = "done"

\* C4: a request whose selectedFiles list is empty or whose prompt is blank
\* gets an error response, and neither the body is built nor the POST issued.
C4_RejectsEmptyInput ==
  (HasBody /\ (req.selectedFiles = <<<< >>>> \/ Trim(req.prompt) = "")) =>
    /\ llmCalls = 0
    /\ ~BodyBuilt
    /\ Answered => response.kind = "error"

\* the identity check has not succeeded (so far)
NoIdentity ==
  \/ ~req.authHeader
  \/ authResult = NoValue
  \/ authResult[1].error
  \/ authResult[1].user = ""

\* C5 as stated: without an authorization header, or when getUser gives an
\* error or no user, the answer is 401 and nothing is downloaded or sent.
C5_Answers401 ==
  (HasBody /\ NoIdentity) =>
    /\ downloads = << >>
    /\ llmCalls = 0
    /\ Answered => response.status = 401

\* C5 amended: without identity nothing is downloaded, built or sent, and
\* the answer is an error: 401 when the API key is configured, the 500 of the
\* missing key otherwise (the key is looked at before the identity).
C5_NoIdentityNoWork ==
  (HasBody /\ NoIdentity) =>
    /\ downloads = << >>
    /\ llmCalls = 0
    /\ ~BodyBuilt
    /\ Answered => /\ response.kind = "error"
                   /\ response.status = IF env.apiKey THEN 401 ELSE 500

\* getUser answered without a user and the request was turned down
C5_Witness ==
  /\ Answered
  /\ req.authHeader
  /\ authResult # NoValue
  /\ ~authResult[1].error /\ authResult[1].user = ""
  /\ response.status = 401

----------------------------------------------------------------------------
(* Properties of the file loop                                              *)

LoopDone ==
  /\ pc \in {"fetch", "received", "done"}
  /\ user # NoValue
  /\ req.selectedFiles # Undefined

Downloaded(k, folder) ==
  {j \in 1..Len(downloads) : downloads[j].idx = k /\ downloads[j].folder = folder}

ResolvedAt(k) ==
  {j \in 1..Len(downloads) : downloads[j].idx = k /\ downloads[j].outcome = "ok"}

NoContentsMessage == "No file contents could be read from the selected files"

\* C6: every selected file is attempted; a file found in neither folder is
\* skipped; the 400 "no file contents" is the answer, without a POST, exactly
\* when no file resolved, and the POST is issued when at least one did.
C6_PerFileFailures ==
  LoopDone =>
    /\ \A k \in 1..Len(selectedFiles) : Downloaded(k, "farm-data") # {}
    /\ (\E k \in 1..Len(selectedFiles) : ResolvedAt(k) # {}) <=> llmCalls = 1
    /\ (\A k \in 1..Len(selectedFiles) : ResolvedAt(k) = {}) <=>
         (Answered /\ response.status = 400 /\ response.error = NoContentsMessage
            /\ llmCalls = 0)

\* the first file was found in neither folder, the second resolved, POST sent
C6_Witness ==
  /\ LoopDone
  /\ Len(selectedFiles) = 2
  /\ Downloaded(1, "certification-requirements") # {}
  /\ ResolvedAt(1) = {}
  /\ ResolvedAt(2) # {}
  /\ llmCalls = 1

\* C7: per file, the farm-data copy is appended when that download succeeds,
\* the certification-requirements copy only when the farm-data download
\* failed and the second succeeded, nothing when both fail; the second folder
\* is queried only right after a failed farm-data download of the same file.
C7_PrimaryWins ==
  [][ /\ fileContents' # fileContents => Len(downloads') = Len(downloads) + 1
      /\ Len(downloads') = Len(downloads) + 1 =>
           LET n == Len(downloads)
               d == downloads'[n + 1]
               copy == "\n\n=== File: " \o d.fileName \o " ===\n" \o d.text
           IN /\ d.fileName = selectedFiles[d.idx]
              /\ d.folder \in {"farm-data", "certification-requirements"}
              /\ d.folder = "farm-data" =>
                   /\ Downloaded(d.idx, "farm-data") = {}
                   /\ IF d.outcome = "ok"
                      THEN fileContents' = fileContents \o copy /\ pc' # "cert"
                      ELSE fileContents' = fileContents
              /\ d.folder = "certification-requirements" =>
                   /\ n >= 1
                   /\ downloads[n].idx = d.idx
                   /\ downloads[n].folder = "farm-data"
                   /\ downloads[n].outcome = "error"
                   /\ IF d.outcome = "ok"
                      THEN fileContents' = fileContents \o copy
                      ELSE fileContents' = fileContents
    ]_vars

\* a file whose farm-data download failed reached the prompt from the
\* requirements folder
C7_Witness ==
  \E j \in 1..Len(downloads) :
    /\ downloads[j].folder = "certification-requirements"
    /\ downloads[j].outcome = "ok"
    /\ downloads[j].text # ""
    /\ Includes(fileContents, downloads[j].text)

RECURSIVE ExpectedBlock(_)
\* the sections of the files 1..k that resolved, in the caller's order
ExpectedBlock(k) ==
  IF k = 0 THEN ""
  ELSE ExpectedBlock(k - 1) \o
       (IF ResolvedAt(k) = {} THEN ""
        ELSE LET d == downloads[CHOOSE j \in ResolvedAt(k) : TRUE]
             IN "\n\n=== File: " \o selectedFiles[k] \o " ===\n" \o d.text)

\* C8: the file block of the prompt is one section per resolved file, headed
\* by its delimiter line and followed by its text, in the order of
\* selectedFiles with the skipped files removed.
C8_SectionsInCallerOrder ==
  BodyBuilt =>
    /\ \A k \in 1..Len(selectedFiles) : Cardinality(ResolvedAt(k)) <= 1
    /\ openAIRequestBody.messages[2].content =
         req.prompt
           \o "\n\nHere are the contents of the selected data files:\n"
           \o ExpectedBlock(Len(selectedFiles))
           \o "\n\nPlease analyze this data according to the prompt above."

\* b.csv then a.csv were selected and both resolved, from different folders
C8_Witness ==
  /\ BodyBuilt
  /\ selectedFiles = <<"b.csv", "a.csv">>
  /\ \E i \in ResolvedAt(1), j \in ResolvedAt(2) :
       /\ downloads[i].folder = "certification-requirements"
       /\ downloads[j].folder = "farm-data"
       /\ downloads[i].text # "" /\ downloads[j].text # ""

----------------------------------------------------------------------------
(* Response Classifier: detectDownloadableContent                          *)

\* the character class [^,\n]
Field(c) == c \notin {",", "\n"}

\* the first position at or after i that [^,\n] does not match
RunEnd(s, i) ==
  LET stops == {k \in i..Len(s) : ~Field(Ch(s, k))}
  IN IF stops = {} THEN Max(i, Len(s) + 1) ELSE Min(stops)

At(s, i, c) == i <= Len(s) /\ Ch(s, i) = c

RECURSIVE HeaderEnds(_, _)
\* the positions where a match of [^,\n]+(?:,[^,\n]+)* begun at p can end
HeaderEnds(s, p) ==
  LET ends == (p + 1)..RunEnd(s, p)
  IN ends \cup UNION {HeaderEnds(s, q + 1) : q \in {e \in ends : At(s, e, ",")}}

RECURSIVE RowEnds(_, _)
\* the positions where a match of [^,\n]*(?:,[^,\n]*)* begun at p can end
RowEnds(s, p) ==
  LET ends == p..RunEnd(s, p)
  IN ends \cup UNION {RowEnds(s, q + 1) : q \in {e \in ends : At(s, e, ",")}}

\* one iteration of (?:[^,\n]*(?:,[^,\n]*)*\n?)
GroupEnds(s, p) ==
  LET ends == RowEnds(s, p)
  IN ends \cup {q + 1 : q \in {e \in ends : At(s, e, "\n")}}

RECURSIVE Iterate(_, _, _)
\* the positions reachable by further iterations of the group
Iterate(s, todo, seen) ==
  IF todo = {} THEN seen
  ELSE LET q == CHOOSE e \in todo : TRUE
           more == GroupEnds(s, q) \ seen
       IN Iterate(s, (todo \ {q}) \cup more, seen \cup more)

\* (?:...)+ begun at p
RowsEnds(s, p) == Iterate(s, GroupEnds(s, p), GroupEnds(s, p))

\* ^ and $ under the m flag
LineStart(s, p) == p = 1 \/ Ch(s, p - 1) = "\n"

LineEnd(s, p) == p = Len(s) + 1 \/ Ch(s, p) = "\n"

\* /^[^,\n]+(?:,[^,\n]+)*\n(?:[^,\n]*(?:,[^,\n]*)*\n?)+$/m .test(s)
csvLikePattern(s) ==
  \E p \in 1..Len(s) :
    /\ LineStart(s, p)
    /\ \E q \in HeaderEnds(s, p) :
         /\ At(s, q, "\n")
         /\ \E e \in RowsEnds(s, q + 1) : LineEnd(s, e)

RECURSIVE Split(_)
\* s.split('\n')
Split(s) ==
  LET nl == {i \in 1..Len(s) : Ch(s, i) = "\n"}
  IN IF nl = {} THEN <<s>>
     ELSE LET i == CHOOSE k \in nl : \A j \in nl : k <= j
          IN <<SubSeq(s, 1, i - 1)>> \o Split(SubSeq(s, i + 1, Len(s)))

\* mutant: the first line is not asked to contain a comma
CsvLike_AnyFirstLine(text) ==
  /\ csvLikePattern(Trim(text))
  /\ Includes(text, ",")
  /\ Len(Split(Trim(text))) > 1

\* the condition of the CSV-like branch
CsvLike(text) ==
  /\ csvLikePattern(Trim(text))
  /\ Includes(text, ",")
  /\ LET lines == Split(Trim(text))
     IN Len(lines) > 1 /\ Includes(lines[1], ",")

\* The backquote cannot be written in a TLA+ string: "~" stands for it in
\* every text of the model, so Fence is the three backquotes of the patterns.
Fence == "~~~"

UpperCase == "ABCDEFGHIJKLMNOPQRSTUVWXYZ"

LowerCase == "abcdefghijklmnopqrstuvwxyz"

LowerOf ==
  [c \in {Ch(UpperCase, i) : i \in 1..26} |->
     Ch(LowerCase, CHOOSE i \in 1..26 : Ch(UpperCase, i) = c)]

\* the canonical form of a character under the i flag
Lower(c) == IF c \in DOMAIN LowerOf THEN LowerOf[c] ELSE c

RECURSIVE ToLower(_)
ToLower(s) == IF s = "" THEN "" ELSE Lower(Ch(s, 1)) \o ToLower(SubSeq(s, 2, Len(s)))

\* mutant: the json pattern is tried before the csv pattern
patterns_JsonFirst ==
  << [type |-> "json", tags |-> <<"json">>, extension |-> "json",
      mimeType |-> "application/json"],
     [type |-> "csv", tags |-> <<"csv">>, extension |-> "csv",
      mimeType |-> "text/csv"],
     [type |-> "xml", tags |-> <<"xml">>, extension |-> "xml",
      mimeType |-> "application/xml"],
     [type |-> "txt", tags |-> <<"txt", "text">>, extension |-> "txt",
      mimeType |-> "text/plain"],
     [type |-> "sql", tags |-> <<"sql">>, extension |-> "sql",
      mimeType |-> "text/plain"],
     [type |-> "python", tags |-> <<"python">>, extension |-> "py",
      mimeType |-> "text/plain"],
     [type |-> "javascript", tags |-> <<"javascript", "js">>, extension |-> "js",
      mimeType |-> "text/plain"] >>

\* const patterns = [...]: the language tags of each fenced-block pattern
patterns ==
  << [type |-> "csv", tags |-> <<"csv">>, extension |-> "csv",
      mimeType |-> "text/csv"],
     [type |-> "json", tags |-> <<"json">>, extension |-> "json",
      mimeType |-> "application/json"],
     [type |-> "xml", tags |-> <<"xml">>, extension |-> "xml",
      mimeType |-> "application/xml"],
     [type |-> "txt", tags |-> <<"txt", "text">>, extension |-> "txt",
      mimeType |-> "text/plain"],
     [type |-> "sql", tags |-> <<"sql">>, extension |-> "sql",
      mimeType |-> "text/plain"],
     [type |-> "python", tags |-> <<"python">>, extension |-> "py",
      mimeType |-> "text/plain"],
     [type |-> "javascript", tags |-> <<"javascript", "js">>, extension |-> "js",
      mimeType |-> "text/plain"] >>

\* the literal lit matches at p, letters compared without case
LitAt(text, p, lit) ==
  /\ p + Len(lit) - 1 <= Len(text)
  /\ ToLower(SubSeq(text, p, p + Len(lit) - 1)) = lit

\* the length of the opening fence that matches at p, 0 when none does
OpenLen(text, p, tags) ==
  IF p + 2 > Len(text) \/ SubSeq(text, p, p + 2) # Fence THEN 0
  ELSE LET hit == {k \in 1..Len(tags) : LitAt(text, p, Fence \o tags[k] \o "\n")}
       IN IF hit = {} THEN 0
          ELSE Len(Fence \o tags[CHOOSE k \in hit : \A j \in hit : k <= j] \o "\n")

\* the positions at or after q where the closing "\n" and fence match
Closings(text, q) ==
  {e \in q..(Len(text) - 3) : SubSeq(text, e, e + 3) = "\n" \o Fence}

\* mutant: the capture runs to the last closing fence
FenceMatch_Greedy(text, tags) ==
  LET starts == {p \in 1..Len(text) :
                   /\ OpenLen(text, p, tags) > 0
                   /\ Closings(text, p + OpenLen(text, p, tags)) # {}}
  IN IF starts = {} THEN [found |-> FALSE, capture |-> ""]
     ELSE LET p == CHOOSE a \in starts : \A b \in starts : a <= b
              q == p + OpenLen(text, p, tags)
              ends == Closings(text, q)
              e == CHOOSE a \in ends : \A b \in ends : a >= b
          IN [found |-> TRUE, capture |-> SubSeq(text, q, e - 1)]

\* text.match(/```tag\n([\s\S]*?)\n```/i): the leftmost opening fence that has
\* a closing fence after it, and the shortest capture from there
FenceMatch(text, tags) ==
  LET starts == {p \in 1..Len(text) :
                   /\ OpenLen(text, p, tags) > 0
                   /\ Closings(text, p + OpenLen(text, p, tags)) # {}}
  IN IF starts = {} THEN [found |-> FALSE, capture |-> ""]
     ELSE LET p == CHOOSE a \in starts : \A b \in starts : a <= b
              q == p + OpenLen(text, p, tags)
              ends == Closings(text, q)
              e == CHOOSE a \in ends : \A b \in ends : a <= b
          IN [found |-> TRUE, capture |-> SubSeq(text, q, e - 1)]

----------------------------------------------------------------------------
(* JSON.parse, as far as it accepts or throws.  A parser takes a position   *)
(* and gives the position after what it read, 0 when it throws.            *)

JsonSpace(c) == c \in {" ", "\t", "\n", "\r"}

Digit(c) == c \in {"0", "1", "2", "3", "4", "5", "6", "7", "8", "9"}

HexDigit(c) ==
  Digit(c) \/ c \in {"a", "b", "c", "d", "e", "f", "A", "B", "C", "D", "E", "F"}

RECURSIVE SkipSpace(_, _)
SkipSpace(s, i) ==
  IF i <= Len(s) /\ JsonSpace(Ch(s, i)) THEN SkipSpace(s, i + 1) ELSE i

RECURSIVE SkipDigits(_, _)
SkipDigits(s, i) ==
  IF i <= Len(s) /\ Digit(Ch(s, i)) THEN SkipDigits(s, i + 1) ELSE i

\* -? (0 | [1-9][0-9]*) (. [0-9]+)? ([eE] [+-]? [0-9]+)?
ParseNumber(s, i) ==
  LET a == IF At(s, i, "-") THEN i + 1 ELSE i
      b == IF At(s, a, "0") THEN a + 1 ELSE SkipDigits(s, a)
      c == IF At(s, b, ".")
           THEN (IF SkipDigits(s, b + 1) = b + 1 THEN 0 ELSE SkipDigits(s, b + 1))
           ELSE b
      x == IF c # 0 /\ (At(s, c, "e") \/ At(s, c, "E"))
           THEN (IF At(s, c + 1, "+") \/ At(s, c + 1, "-") THEN c + 2 ELSE c + 1)
           ELSE 0
  IN IF b = a \/ c = 0 THEN 0
     ELSE IF x = 0 THEN c
     ELSE IF SkipDigits(s, x) = x THEN 0 ELSE SkipDigits(s, x)

RECURSIVE StringBody(_, _)
\* the characters of a string up to and including the closing quote
StringBody(s, i) ==
  IF i > Len(s) THEN 0
  ELSE LET c == Ch(s, i) IN
    IF c = "\"" THEN i + 1
    ELSE IF c \in {"\n", "\t", "\r"} THEN 0
    ELSE IF c = "\\" THEN
      IF i + 1 > Len(s) THEN 0
      ELSE IF Ch(s, i + 1) \in {"\"", "\\", "/", "b", "f", "n", "r", "t"}
      THEN StringBody(s, i + 2)
      ELSE IF Ch(s, i + 1) = "u" /\ i + 5 <= Len(s)
                /\ \A k \in (i + 2)..(i + 5) : HexDigit(Ch(s, k))
      THEN StringBody(s, i + 6)
      ELSE 0
    ELSE StringBody(s, i + 1)

ParseString(s, i) == IF At(s, i, "\"") THEN StringBody(s, i + 1) ELSE 0

ParseLiteral(s, i) ==
  IF i + 3 <= Len(s) /\ SubSeq(s, i, i + 3) \in {"true", "null"} THEN i + 4
  ELSE IF i + 4 <= Len(s) /\ SubSeq(s, i, i + 4) = "false" THEN i + 5
  ELSE 0

RECURSIVE ParseValue(_, _)
RECURSIVE ParseElements(_, _)
RECURSIVE ParseMembers(_, _)

\* value ws (, ws value ws)* ]   begun at the first value
ParseElements(s, i) ==
  LET v == ParseValue(s, i)
      j == SkipSpace(s, v)
  IN IF v = 0 THEN 0
     ELSE IF At(s, j, "]") THEN j + 1
     ELSE IF At(s, j, ",") THEN ParseElements(s, SkipSpace(s, j + 1))
     ELSE 0

\* string ws : ws value ws (, ws member)* }   begun at the first key
ParseMembers(s, i) ==
  LET k == ParseString(s, i)
      c == SkipSpace(s, k)
      v == IF k # 0 /\ At(s, c, ":") THEN ParseValue(s, SkipSpace(s, c + 1)) ELSE 0
      j == SkipSpace(s, v)
  IN IF v = 0 THEN 0
     ELSE IF At(s, j, "}") THEN j + 1
     ELSE IF At(s, j, ",") THEN ParseMembers(s, SkipSpace(s, j + 1))
     ELSE 0

ParseValue(s, i) ==
  IF i = 0 \/ i > Len(s) THEN 0
  ELSE IF Ch(s, i) = "[" THEN
    (IF At(s, SkipSpace(s, i + 1), "]") THEN SkipSpace(s, i + 1) + 1
     ELSE ParseElements(s, SkipSpace(s, i + 1)))
  ELSE IF Ch(s, i) = "{" THEN
    (IF At(s, SkipSpace(s, i + 1), "}") THEN SkipSpace(s, i + 1) + 1
     ELSE ParseMembers(s, SkipSpace(s, i + 1)))
  ELSE IF Ch(s, i) = "\"" THEN ParseString(s, i)
  ELSE IF Ch(s, i) = "-" \/ Digit(Ch(s, i)) THEN ParseNumber(s, i)
  ELSE ParseLiteral(s, i)

\* JSON.parse(s) returns (TRUE) or throws (FALSE)
JsonParses(s) ==
  LET e == ParseValue(s, SkipSpace(s, 1))
  IN e # 0 /\ SkipSpace(s, e) = Len(s) + 1

StartsWith(s, c) == Len(s) >= 1 /\ Ch(s, 1) = c

EndsWith(s, c) == Len(s) >= 1 /\ Ch(s, Len(s)) = c

----------------------------------------------------------------------------

\* return null
NoFile == [hasFile |-> FALSE]

\* mutant: the filename ends with the kind
FileInfo_TypeName(content, extension, mimeType, type) ==
  [hasFile |-> TRUE, content |-> content,
   filename |-> "analysis_result." \o type,
   extension |-> extension, mimeType |-> mimeType, type |-> type]

FileInfo(content, extension, mimeType, type) ==
  [hasFile |-> TRUE, content |-> content,
   filename |-> "analysis_result." \o extension,
   extension |-> extension, mimeType |-> mimeType, type |-> type]

\* mutant: the content of the csv artifact is the text as it came
CsvFile_Untrimmed(text) ==
  [hasFile |-> TRUE, content |-> text,
   filename |-> "analysis_result.csv", extension |-> "csv",
   mimeType |-> "text/csv", type |-> "csv"]

\* the CSV-like branch
CsvFile(text) == [hasFile |-> TRUE, content |-> Trim(text),
                  filename |-> "analysis_result.csv", extension |-> "csv",
                  mimeType |-> "text/csv", type |-> "csv"]

\* mutant: the text between the brackets is not parsed
BareJson_NoParse(text) ==
  LET trimmed == Trim(text)
  IN /\ \/ StartsWith(trimmed, "{") /\ EndsWith(trimmed, "}")
        \/ StartsWith(trimmed, "[") /\ EndsWith(trimmed, "]")
     /\ trimmed = trimmed

\* the bare JSON branch
BareJson(text) ==
  LET trimmed == Trim(text)
  IN /\ \/ StartsWith(trimmed, "{") /\ EndsWith(trimmed, "}")
        \/ StartsWith(trimmed, "[") /\ EndsWith(trimmed, "]")
     /\ JsonParses(trimmed)

RECURSIVE FromPatterns(_, _)
\* for (const pattern of patterns), from pattern k on, then the JSON branch
FromPatterns(text, k) ==
  IF k > Len(patterns)
  THEN IF BareJson(text)
       THEN [hasFile |-> TRUE, content |-> Trim(text),
             filename |-> "analysis_result.json", extension |-> "json",
             mimeType |-> "application/json", type |-> "json"]
       ELSE NoFile
  ELSE LET match == FenceMatch(text, patterns[k].tags)
       IN IF match.found /\ match.capture # ""
          THEN FileInfo(Trim(match.capture), patterns[k].extension,
                        patterns[k].mimeType, patterns[k].type)
          ELSE FromPatterns(text, k + 1)

\* mutant: the fenced blocks are looked at before the CSV-like shape
detectDownloadableContent_FenceFirst(text) ==
  IF text = "" THEN NoFile
  ELSE IF FromPatterns(text, 1) # NoFile /\ FromPatterns(text, 1).type # "json"
  THEN FromPatterns(text, 1)
  ELSE IF CsvLike(text) THEN CsvFile(text)
  ELSE FromPatterns(text, 1)

detectDownloadableContent(text) ==
  IF text = "" THEN NoFile
  ELSE IF CsvLike(text) THEN CsvFile(text)
  ELSE FromPatterns(text, 1)

----------------------------------------------------------------------------
(* The provider's reply, as JavaScript values                               *)

\* a value of a field the handler reads: t is what typeof / Array.isArray /
\* the nullish test tell of it, and s, n or parts hold it
JsUndefined == [t |-> "undefined", s |-> "", n |-> 0, parts |-> << >>]

JsNull == [t |-> "null", s |-> "", n |-> 0, parts |-> << >>]

JsString(s) == [t |-> "string", s |-> s, n |-> 0, parts |-> << >>]

JsNumber(n) == [t |-> "number", s |-> "", n |-> n, parts |-> << >>]

JsArray(parts) == [t |-> "array", s |-> "", n |-> 0, parts |-> parts]

\* the parts of an array content: a string, an object with text and content
\* fields (JsUndefined when the field is missing), or null
PartString(s) ==
  [t |-> "string", s |-> s, text |-> JsUndefined, content |-> JsUndefined]

PartObject(text, content) ==
  [t |-> "object", s |-> "", text |-> text, content |-> content]

PartNull == [t |-> "null", s |-> "", text |-> JsUndefined, content |-> JsUndefined]

\* a ?? b
Coalesce(a, b) == IF a.t \in {"undefined", "null"} THEN b ELSE a

\* choices[0]: its message (an object with a content, or missing) and its
\* own content
NoMessage == [t |-> "undefined", content |-> JsUndefined]

Message(content) == [t |-> "object", content |-> content]

Choice(message, content) == [message |-> message, content |-> content]

\* {}
EmptyObject == Choice(NoMessage, JsUndefined)

NoChoices == [t |-> "undefined", items |-> << >>]

Choices(items) == [t |-> "array", items |-> items]

\* usage.completion_tokens_details
NoDetails == [t |-> "undefined", reasoning_tokens |-> JsUndefined]

Details(reasoning) == [t |-> "object", reasoning_tokens |-> reasoning]

\* the usage object of the reply, or {} when t is not "object"
Usage(t, input, prompt, output, completion, reasoning, details, total) ==
  [t |-> t, input_tokens |-> input, prompt_tokens |-> prompt,
   output_tokens |-> output, completion_tokens |-> completion,
   reasoning_tokens |-> reasoning, completion_tokens_details |-> details,
   total_tokens |-> total]

EmptyUsage(t) ==
  Usage(t, JsUndefined, JsUndefined, JsUndefined, JsUndefined, JsUndefined,
        NoDetails, JsUndefined)

\* what response.json() resolves with: a JSON object with the fields the
\* handler reads, or a JSON value that is not an object (null, a number)
Data(choices, output_text, usage) ==
  [t |-> "object", choices |-> choices, output_text |-> output_text,
   usage |-> usage]

NonObject(t) ==
  [t |-> t, choices |-> NoChoices, output_text |-> JsUndefined,
   usage |-> EmptyUsage("undefined")]

\* the body of the reply: JSON (json() resolves with data) or not (it rejects)
JsonBody(data) == [json |-> TRUE, data |-> data]

NotJson == [json |-> FALSE, data |-> NonObject("undefined")]

----------------------------------------------------------------------------
(* Reading the reply                                                        *)

\* typeof part === 'string' ? part : (part?.text ?? part?.content ?? '')
PartText(part) ==
  IF part.t = "string" THEN part.s
  ELSE Coalesce(part.text, Coalesce(part.content, JsString(""))).s

RECURSIVE Join(_)
\* content.map(...).join('')
Join(parts) ==
  IF parts = << >> THEN "" ELSE PartText(Head(parts)) \o Join(Tail(parts))

\* mutant: output_text is taken first
ExtractText_OutputFirst(data) ==
  LET choice0 == IF data.t = "object" /\ data.choices.t = "array"
                    /\ data.choices.items # << >>
                 THEN data.choices.items[1]
                 ELSE EmptyObject
      msgContent == choice0.message.content
      choiceContent == choice0.content
      fromMessage ==
        IF msgContent.t = "string" THEN msgContent.s
        ELSE IF msgContent.t = "array" THEN Join(msgContent.parts)
        ELSE ""
      fromChoice ==
        IF choiceContent.t = "string" THEN choiceContent.s
        ELSE IF choiceContent.t = "array" THEN Join(choiceContent.parts)
        ELSE ""
  IN IF data.output_text.t = "string" /\ data.output_text.s # ""
     THEN data.output_text.s
     ELSE IF fromMessage # "" THEN fromMessage ELSE fromChoice

\* let generatedText = ''; try { ... } catch (e) { ... }
ExtractText(data) ==
  LET choice0 == IF data.t = "object" /\ data.choices.t = "array"
                    /\ data.choices.items # << >>
                 THEN data.choices.items[1]
                 ELSE EmptyObject
      message == IF choice0.message.t = "object" THEN choice0.message
                 ELSE Message(JsUndefined)
      msgContent == message.content
      fromMessage ==
        IF msgContent.t = "string" THEN msgContent.s
        ELSE IF msgContent.t = "array" THEN Join(msgContent.parts)
        ELSE ""
      choiceContent == choice0.content
      fromChoice ==
        IF fromMessage = "" /\ choiceContent.t = "string" THEN choiceContent.s
        ELSE IF fromMessage = "" /\ choiceContent.t = "array"
        THEN Join(choiceContent.parts)
        ELSE fromMessage
      output_text == IF data.t = "object" THEN data.output_text ELSE JsUndefined
  IN IF fromChoice = "" /\ output_text.t = "string" THEN output_text.s
     ELSE fromChoice

\* const usage = data.usage || {}
UsageOf(data) ==
  IF data.usage.t = "object" THEN data.usage ELSE EmptyUsage("object")

\* mutant: the nested count is taken before the top-level one
ReasoningTokensOf_NestedFirst(usage, source) ==
  LET nested == IF usage.completion_tokens_details.t = "object"
                THEN usage.completion_tokens_details.reasoning_tokens
                ELSE JsUndefined
  IN IF source = "model-aware"
     THEN Coalesce(nested, Coalesce(usage.reasoning_tokens, JsNumber(0))).n
     ELSE Coalesce(usage.reasoning_tokens, JsNumber(0)).n

\* usage.reasoning_tokens ?? usage.completion_tokens_details?.reasoning_tokens
\* ?? 0; the version without model selection reads the top-level field only
ReasoningTokensOf(usage, source) ==
  LET nested == IF usage.completion_tokens_details.t = "object"
                THEN usage.completion_tokens_details.reasoning_tokens
                ELSE JsUndefined
  IN IF source = "model-aware"
     THEN Coalesce(usage.reasoning_tokens, Coalesce(nested, JsNumber(0))).n
     ELSE Coalesce(usage.reasoning_tokens, JsNumber(0)).n

\* mutant: a count of 0 falls through to the next field (|| for ??)
NormalizeUsage_Falsy(usage, source) ==
  LET Or(a, b) == IF a.t \in {"undefined", "null"} \/ a.n = 0 THEN b ELSE a
      inputTokens ==
        Or(usage.input_tokens, Or(usage.prompt_tokens, JsNumber(0))).n
      outputTokens ==
        Or(usage.output_tokens, Or(usage.completion_tokens, JsNumber(0))).n
  IN [inputTokens |-> inputTokens, outputTokens |-> outputTokens,
      reasoningTokens |-> ReasoningTokensOf(usage, source),
      totalTokens |->
        Or(usage.total_tokens, JsNumber(inputTokens + outputTokens)).n]

\* inputTokens, outputTokens, reasoningTokens, totalTokens
NormalizeUsage(usage, source) ==
  LET inputTokens ==
        Coalesce(usage.input_tokens,
                 Coalesce(usage.prompt_tokens, JsNumber(0))).n
      outputTokens ==
        Coalesce(usage.output_tokens,
                 Coalesce(usage.completion_tokens, JsNumber(0))).n
  IN [inputTokens |-> inputTokens, outputTokens |-> outputTokens,
      reasoningTokens |-> ReasoningTokensOf(usage, source),
      totalTokens |->
        Coalesce(usage.total_tokens, JsNumber(inputTokens + outputTokens)).n]

\* the message put in place of an empty text when reasoning tokens were used
ReasoningMessage(reasoningTokens, maxTokens) ==
  "The model completed internal reasoning using " \o ToString(reasoningTokens)
  \o " tokens but produced no visible output. This suggests the "
  \o "max_completion_tokens (" \o ToString(OrNum(maxTokens, DefaultMaxTokens))
  \o ") may be too low for this complex analysis. Try increasing to 4000+ "
  \o "tokens or simplifying your prompt."

\* the message put in place of an empty text when only output tokens were used
EmptyContentMessage ==
  "The model processed your request but returned empty content. "
  \o "Try rephrasing your prompt or increasing the max tokens setting."

\* the message of the version without model selection
GPT5Message ==
  "The analysis used reasoning tokens but did not produce visible output. "
  \o "This can happen with GPT-5 when all tokens are used for internal "
  \o "reasoning. Try increasing max tokens or simplifying your prompt."

\* mutant: an empty text is returned as it is
Substitute_Never(generatedText, tokens, maxTokens, source) == generatedText

\* if (!generatedText && (reasoningTokens > 0 || outputTokens > 0)) { ... };
\* the version without model selection asks for reasoningTokens > 0 only
Substitute(generatedText, tokens, maxTokens, source) ==
  IF source = "model-aware"
  THEN IF generatedText = ""
          /\ (tokens.reasoningTokens > 0 \/ tokens.outputTokens > 0)
       THEN IF tokens.reasoningTokens > 0
            THEN ReasoningMessage(tokens.reasoningTokens, maxTokens)
            ELSE EmptyContentMessage
       ELSE generatedText
  ELSE IF generatedText = "" /\ tokens.reasoningTokens > 0
       THEN GPT5Message
       ELSE generatedText

\* parseFloat(processingTime.toFixed(2)), in hundredths of a second, for the
\* elapsed milliseconds ms
ProcessingTime(ms) == (ms + 5) \div 10

\* const result = { generatedText, fileInfo, statistics }; the version
\* without model selection has no fileInfo and no statistics.model
Result(data, ms, r, body, source) ==
  LET tokens == NormalizeUsage(UsageOf(data), source)
      statistics == [processingTime |-> ProcessingTime(ms),
                     inputTokens |-> tokens.inputTokens,
                     outputTokens |-> tokens.outputTokens,
                     reasoningTokens |-> tokens.reasoningTokens,
                     totalTokens |-> tokens.totalTokens]
      result(generatedText) ==
        IF source = "model-aware"
        THEN [status |-> 200, kind |-> "result",
              generatedText |-> Trim(generatedText),
              fileInfo |-> detectDownloadableContent(generatedText),
              statistics |-> statistics @@ ("model" :> body.model)]
        ELSE [status |-> 200, kind |-> "result",
              generatedText |-> Trim(generatedText),
              statistics |-> statistics]
  IN CHOOSE res \in {result(text) :
                       text \in {Substitute(ExtractText(data), tokens,
                                            r.maxTokens, source)}} : TRUE

----------------------------------------------------------------------------
(* The end of the handler: the fetch settles and the reply is read          *)

\* what the fetch settles with: it rejects, or it resolves with a status,
\* the text of an error body, the body of a success, after elapsed
\* milliseconds
Rejected ==
  [settled |-> "rejected", status |-> 0, errorData |-> "", body |-> NotJson,
   elapsed |-> 0]

Resolved(status, errorData, body, ms) ==
  [settled |-> "resolved", status |-> status, errorData |-> errorData,
   body |-> body, elapsed |-> ms]

\* milliseconds between startTime and endTime
ElapsedMs == {4, 1236}

\* a reply with a CSV text and the usage { prompt_tokens, completion_tokens }
SampleData ==
  Data(Choices(<<Choice(Message(JsString(" a,b\n1,2 ")), JsUndefined)>>),
       JsUndefined,
       Usage("object", JsUndefined, JsNumber(10), JsUndefined, JsNumber(5),
             JsUndefined, NoDetails, JsUndefined))

\* the outcomes of the fetch in the runs of the whole handler
FetchOutcomes ==
  {Rejected,
   Resolved(429, "rate limited", NotJson, 4),
   Resolved(200, "", JsonBody(SampleData), 1236),
   Resolved(200, "", JsonBody(NonObject("null")), 1236)}

\* response.ok
Ok(status) == status \in 200..299

\* headers and status arrived, reading the body rejects
Unreadable(status, ms) ==
  [settled |-> "unreadable", status |-> status, errorData |-> "",
   body |-> NotJson, elapsed |-> ms]

\* mutant: the error body is trimmed
ProviderError_Trimmed(status, errorData) ==
  ErrorResponse(status,
    "OpenAI API error: " \o ToString(status) \o " - " \o Trim(errorData))

\* { error: `OpenAI API error: ${response.status} - ${errorData}` } with
\* status: response.status
ProviderError(status, errorData) ==
  ErrorResponse(status,
    "OpenAI API error: " \o ToString(status) \o " - " \o errorData)

\* mutant: a 429 is answered by posting once more
ProviderRepliesFrom_Retry(outcomes) ==
  /\ pc = "fetch"
  /\ \E o \in outcomes :
       /\ reply' = o
       /\ IF o.settled = "rejected"
          THEN Respond(ErrorResponse(500, "fetch failed")) /\ UNCHANGED llmCalls
          ELSE IF o.status = 429 /\ llmCalls < 2
          THEN llmCalls' = llmCalls + 1 /\ UNCHANGED <<pc, response>>
          ELSE IF ~Ok(o.status)
          THEN Respond(ProviderError(o.status, o.errorData)) /\ UNCHANGED llmCalls
          ELSE pc' = "received" /\ UNCHANGED <<response, llmCalls>>
  /\ UNCHANGED <<req, env, idx, fileContents, openAIRequestBody,
                 downloads, authAsked, authResult, user, detectVars, clientVars>>

\* the fetch settles with one of outcomes: a transport failure, an error
\* status (whose body is read as text), or a success
ProviderRepliesFrom(outcomes) ==
  /\ pc = "fetch"
  /\ \E o \in outcomes :
       /\ reply' = o
       /\ IF o.settled = "rejected"
          THEN Respond(ErrorResponse(500, "fetch failed"))
          ELSE IF ~Ok(o.status)
          THEN IF o.settled = "unreadable"
               THEN Respond(ErrorResponse(500, "error reading a body"))
               ELSE Respond(ProviderError(o.status, o.errorData))
          ELSE pc' = "received" /\ UNCHANGED response
  /\ UNCHANGED <<req, env, idx, fileContents, openAIRequestBody, llmCalls,
                 downloads, authAsked, authResult, user, detectVars, clientVars>>

ProviderReplies == ProviderRepliesFrom(FetchOutcomes)

\* the reply is read and the result returned; when response.json() rejects
\* or data is null (data.usage throws), the outer catch answers 500
ReturnResult ==
  /\ pc = "received"
  /\ IF ~reply.body.json
     THEN Respond(ErrorResponse(500, "Unexpected token in JSON"))
     ELSE IF reply.body.data.t = "null"
     THEN Respond(ErrorResponse(500,
            "Cannot read properties of null (reading 'usage')"))
     ELSE Respond(Result(reply.body.data, reply.elapsed, req,
                         openAIRequestBody, env.source))
  /\ UNCHANGED <<req, env, idx, fileContents, openAIRequestBody, llmCalls,
                 downloads, authAsked, authResult, user, reply, detectVars, clientVars>>

ServeNext ==
  \/ Receive
  \/ Start
  \/ GetUser
  \/ DownloadFarm
  \/ DownloadCert
  \/ CallOpenAI
  \/ ProviderReplies
  \/ ReturnResult

Next == ServeNext

Spec == Init /\ [][Next]_vars

----------------------------------------------------------------------------
(* Runs of the end of the handler on bounded replies                        *)

\* the contents choices[0].message.content is drawn from
MessageContents ==
  {JsUndefined, JsNumber(1), JsString(""), JsString("M"), JsString(" \n"),
   JsArray(<< >>),
   JsArray(<<PartString("A"), PartObject(JsString("B"), JsString("X"))>>),
   JsArray(<<PartObject(JsUndefined, JsString("C")),
             PartObject(JsUndefined, JsUndefined), PartNull>>),
   JsArray(<<PartObject(JsString(""), JsString("D"))>>)}

\* the contents choices[0].content is drawn from
ChoiceContents ==
  {JsUndefined, JsNumber(1), JsString(""), JsString("K"),
   JsArray(<<PartString("L"), PartObject(JsString("N"), JsUndefined)>>)}

\* the values output_text is drawn from
OutputTexts == {JsUndefined, JsNumber(1), JsString(""), JsString("O")}

\* choices missing, empty, or with one choice
ChoicesShapes ==
  {NoChoices, Choices(<< >>)}
  \cup {Choices(<<Choice(NoMessage, c)>>) : c \in ChoiceContents}
  \cup {Choices(<<Choice(Message(m), c)>>) :
          m \in MessageContents, c \in ChoiceContents}

\* usage objects with the top-level counts, with the nested count and with
\* only the legacy field names, and a missing usage
SampleUsages ==
  {EmptyUsage("undefined"),
   Usage("object", JsUndefined, JsNumber(10), JsUndefined, JsNumber(5),
         JsUndefined, NoDetails, JsUndefined),
   Usage("object", JsNumber(7), JsUndefined, JsNumber(0), JsUndefined,
         JsNumber(42), NoDetails, JsNumber(99))}

\* the usage objects of the usage runs
Usages ==
  {EmptyUsage("undefined"), EmptyUsage("null")}
  \cup
  {Usage("object", input, prompt, output, completion, reasoning, details,
         total) :
     input \in {JsUndefined, JsNumber(0), JsNumber(7)},
     prompt \in {JsUndefined, JsNumber(10)},
     output \in {JsUndefined, JsNumber(0), JsNumber(3)},
     completion \in {JsUndefined, JsNumber(5)},
     reasoning \in {JsUndefined, JsNull, JsNumber(0), JsNumber(42)},
     details \in {NoDetails, Details(JsUndefined), Details(JsNumber(8))},
     total \in {JsUndefined, JsNumber(0), JsNumber(99)}}

\* bodies that are not the JSON object the handler expects
MalformedBodies ==
  {NotJson, JsonBody(NonObject("null")), JsonBody(NonObject("number"))}

\* the replies of the text runs: every shape of the text, a few usages
TextReplies ==
  {Resolved(200, "", b, ms) :
     b \in {JsonBody(Data(c, o, u)) :
              c \in ChoicesShapes, o \in OutputTexts, u \in SampleUsages}
           \cup MalformedBodies,
     ms \in ElapsedMs}

\* the replies of the usage runs: every usage, an empty, a blank and a
\* non-empty text
UsageReplies ==
  {Resolved(200, "", b, 1236) :
     b \in {JsonBody(Data(c, JsUndefined, u)) :
              c \in {NoChoices} \cup
                    {Choices(<<Choice(Message(JsString(t)), JsUndefined)>>) :
                       t \in {"M", " \n"}},
              u \in Usages}
           \cup MalformedBodies}

\* the requests of these runs: one readable file, any maxTokens
ReplyRequests ==
  [method : {"POST"}, bodyOk : {TRUE}, authHeader : {TRUE},
   selectedFiles : {<<(<<"a.csv">>)>>}, prompt : {"sum it"},
   temperature : {Undefined}, maxTokens : Opt(MaxTokenValues),
   model : {Undefined, <<"gpt-4o-mini">>}]

\* the state of the handler when the fetch has resolved with a success
\* status: the user is authenticated, a.csv was read from farm-data, the
\* body was built and posted
Received(replies) ==
  /\ pc = "received"
  /\ req \in ReplyRequests
  /\ env \in [apiKey : {TRUE}, source : Sources]
  /\ idx = 2
  /\ fileContents = AppendSection("", "a.csv", Folders[1] \o "#a.csv")
  /\ openAIRequestBody =
       IF env.source = "model-aware"
       THEN BuildRequestBody(req, fileContents)
       ELSE BuildRequestBodyGPT5(req, fileContents)
  /\ llmCalls = 1
  /\ downloads = <<[idx |-> 1, folder |-> Folders[1], fileName |-> "a.csv",
                    path |-> "u1/" \o Folders[1] \o "/a.csv",
                    outcome |-> "ok", text |-> Folders[1] \o "#a.csv"]>>
  /\ authAsked = 1
  /\ authResult = <<[user |-> "u1", error |-> FALSE]>>
  /\ user = <<"u1">>
  /\ response = NoValue
  /\ reply \in replies
  /\ dtext = ""
  /\ dcount = 0
  /\ dresult = [hasFile |-> FALSE]
  /\ dblocks = << >>
  /\ ClientIdle

SpecText == Received(TextReplies) /\ [][ReturnResult]_vars

SpecUsage == Received(UsageReplies) /\ [][ReturnResult]_vars

\* statuses of the provider's error replies
ErrorStatuses == {400, 429, 503}

\* error bodies as the provider sends them
ErrorBodies == {"", "rate limited", " {\"error\":{\"code\":429}}\n"}

\* the outcomes of the fetch in the fetch runs
ProviderOutcomes ==
  {Rejected}
  \cup {Resolved(st, e, NotJson, ms) :
          st \in ErrorStatuses, e \in ErrorBodies, ms \in ElapsedMs}
  \cup {Unreadable(st, 4) : st \in ErrorStatuses \cup {200}}
  \cup {Resolved(200, "", b, 1236) :
          b \in {JsonBody(SampleData), JsonBody(NonObject("null")), NotJson}}

\* the state of the handler when the POST has been issued
Fetching ==
  /\ pc = "fetch"
  /\ req \in ReplyRequests
  /\ env \in [apiKey : {TRUE}, source : Sources]
  /\ idx = 2
  /\ fileContents = AppendSection("", "a.csv", Folders[1] \o "#a.csv")
  /\ openAIRequestBody =
       IF env.source = "model-aware"
       THEN BuildRequestBody(req, fileContents)
       ELSE BuildRequestBodyGPT5(req, fileContents)
  /\ llmCalls = 1
  /\ downloads = <<[idx |-> 1, folder |-> Folders[1], fileName |-> "a.csv",
                    path |-> "u1/" \o Folders[1] \o "/a.csv",
                    outcome |-> "ok", text |-> Folders[1] \o "#a.csv"]>>
  /\ authAsked = 1
  /\ authResult = <<[user |-> "u1", error |-> FALSE]>>
  /\ user = <<"u1">>
  /\ response = NoValue
  /\ reply = NoValue
  /\ dtext = ""
  /\ dcount = 0
  /\ dresult = [hasFile |-> FALSE]
  /\ dblocks = << >>
  /\ ClientIdle

\* the requests of the whole runs: a preflight, a body that is not JSON,
\* and bodies with any list of files, with and without the header
RunRequests ==
  {r \in Requests : /\ r.prompt \in {"", "sum it"}
                    /\ r.temperature = Undefined
                    /\ r.maxTokens = Undefined
                    /\ r.model \in {Undefined, <<"gpt-4o-mini">>}}

\* the state of the handler when a request has arrived
Started ==
  /\ pc = "start"
  /\ req \in RunRequests
  /\ env \in [apiKey : BOOLEAN, source : Sources]
  /\ idx = 0
  /\ fileContents = ""
  /\ openAIRequestBody = NoValue
  /\ llmCalls = 0
  /\ downloads = << >>
  /\ authAsked = 0
  /\ authResult = NoValue
  /\ user = NoValue
  /\ response = NoValue
  /\ reply = NoValue
  /\ dtext = ""
  /\ dcount = 0
  /\ dresult = [hasFile |-> FALSE]
  /\ dblocks = << >>
  /\ ClientIdle

\* a reply with a short CSV text and the usage { prompt_tokens, completion_tokens }
RunData ==
  Data(Choices(<<Choice(Message(JsString("a,b\n1")), JsUndefined)>>),
       JsUndefined,
       Usage("object", JsUndefined, JsNumber(10), JsUndefined, JsNumber(5),
             JsUndefined, NoDetails, JsUndefined))

\* the outcomes of the fetch in the whole runs: the transport fails, the
\* provider refuses, a body cannot be read or parsed, the provider answers
RunOutcomes ==
  {Rejected,
   Resolved(429, "rate limited", NotJson, 4),
   Unreadable(503, 4),
   Unreadable(200, 4),
   Resolved(200, "", NotJson, 1236),
   Resolved(200, "", JsonBody(NonObject("null")), 1236),
   Resolved(200, "", JsonBody(RunData), 1236)}

\* the steps of the handler once the request has arrived
RunNext ==
  \/ Start
  \/ GetUser
  \/ DownloadFarm
  \/ DownloadCert
  \/ CallOpenAI
  \/ ProviderRepliesFrom(RunOutcomes)
  \/ ReturnResult

\* the whole runs; every await of the handler settles
SpecRun == Started /\ [][RunNext]_vars /\ WF_vars(RunNext)

FetchNext ==
  \/ ProviderRepliesFrom(ProviderOutcomes)
  \/ ReturnResult

SpecFetch == Fetching /\ [][FetchNext]_vars

----------------------------------------------------------------------------
(* Runs of the classifier on bounded texts                                  *)

\* fileInfo = detectDownloadableContent(generatedText) on a text one
\* character longer
TypeChar ==
  /\ dcount < MaxChars
  /\ \E c \in CsvChars :
       /\ dtext' = dtext \o c
       /\ dresult' = detectDownloadableContent(dtext \o c)
  /\ dcount' = dcount + 1
  /\ UNCHANGED <<serveVars, dblocks, clientVars>>

\* the same on a text one piece longer
AddPiece ==
  /\ dcount < MaxPieces
  /\ \E f \in Pieces :
       /\ dtext' = dtext \o f
       /\ dresult' = detectDownloadableContent(dtext \o f)
  /\ dcount' = dcount + 1
  /\ UNCHANGED <<serveVars, dblocks, clientVars>>

SpecCsv == Init /\ [][TypeChar]_vars

SpecDetect == Init /\ [][AddPiece]_vars

----------------------------------------------------------------------------
(* Properties of the classifier                                             *)

\* a line that is a list of one or more non-empty fields separated by commas
FieldList(l) ==
  /\ l # ""
  /\ Ch(l, 1) # ","
  /\ Ch(l, Len(l)) # ","
  /\ ~Includes(l, ",,")

\* the texts the CSV-like rule takes: at least two lines after trimming, a
\* comma in the first, and a field list among the lines before the last
CsvShape(text) ==
  LET lines == Split(Trim(text))
  IN /\ Len(lines) >= 2
     /\ Includes(lines[1], ",")
     /\ \E i \in 1..(Len(lines) - 1) : FieldList(lines[i])

\* at least two lines after trimming, each with a comma
EveryLineHasComma(text) ==
  LET lines == Split(Trim(text))
  IN /\ Len(lines) >= 2
     /\ \A i \in 1..Len(lines) : Includes(lines[i], ",")

\* C9: whenever the CSV-like rule matches, the result is the csv artifact
\* analysis_result.csv whose content is the whole trimmed text, whatever
\* fenced block or JSON body the text also holds ("1,1\n1,1" for one).
C9_CsvFirst ==
  /\ CsvShape(dtext) =>
       dresult = [hasFile |-> TRUE, content |-> Trim(dtext),
                  filename |-> "analysis_result.csv", extension |-> "csv",
                  mimeType |-> "text/csv", type |-> "csv"]
  /\ dtext = "1,1\n1,1" => dresult.hasFile /\ dresult.type = "csv"
                            /\ dresult.content = "1,1\n1,1"

\* a CSV-like text that also holds a fenced csv block with other content
C9_Witness ==
  /\ CsvShape(dtext)
  /\ FenceMatch(dtext, <<"csv">>).found
  /\ FenceMatch(dtext, <<"csv">>).capture \notin {"", Trim(dtext)}
  /\ dresult.hasFile
  /\ dresult.content = Trim(dtext)

\* C10 as stated: the CSV-like rule takes a text exactly when it has at
\* least two lines and every line contains a comma.
C10_EveryLineHasComma ==
  dresult.hasFile <=> EveryLineHasComma(dtext)

\* C10 amended: the CSV-like rule takes a text exactly when, after trimming,
\* it has at least two lines, its first line contains a comma, and some line
\* before the last is a list of non-empty fields separated by single commas;
\* the other lines need no comma.
C10_CsvShape ==
  /\ dresult.hasFile <=> CsvShape(dtext)
  /\ dresult.hasFile => dresult.type = "csv" /\ dresult.content = Trim(dtext)

\* a text taken by the rule although its last line has no comma
C10_Witness ==
  /\ dresult.hasFile
  /\ dresult.type = "csv"
  /\ Len(Split(Trim(dtext))) = 2
  /\ ~Includes(Split(Trim(dtext))[2], ",")

----------------------------------------------------------------------------
(* Runs of the classifier on texts made of whole fenced blocks              *)

MaxBlocks == 2

\* language tags written after the opening fence; "yaml" is in no pattern
BlockTags == {"csv", "json", "JSON", "xml", "txt", "text", "sql", "python",
              "javascript", "js", "yaml"}

\* inner contents of the blocks
BlockContents == {"", "x", " {1\n"}

\* texts written between the blocks
PlainTexts == {"a,b", "\n", "[1]"}

\* a segment is a fenced block (tag # "") or a plain text
Segments ==
  [tag : BlockTags, content : BlockContents, plain : {""}] \cup
  [tag : {""}, content : {""}, plain : PlainTexts]

\* the text of a segment: fence, tag, newline, content, newline, fence
SegmentText(g) ==
  IF g.tag = "" THEN g.plain
  ELSE Fence \o g.tag \o "\n" \o g.content \o "\n" \o Fence

\* fileInfo = detectDownloadableContent(generatedText) on a text one
\* segment longer
AddBlock ==
  /\ dcount < MaxBlocks
  /\ \E g \in Segments :
       /\ dblocks' = Append(dblocks, g)
       /\ dtext' = dtext \o SegmentText(g)
       /\ dresult' = detectDownloadableContent(dtext \o SegmentText(g))
  /\ dcount' = dcount + 1
  /\ UNCHANGED <<serveVars, clientVars>>

SpecBlocks == Init /\ [][AddBlock]_vars

----------------------------------------------------------------------------
(* Properties of the fenced-block rules                                     *)

\* the kinds in the order of the specification's list
KindOrder == <<"csv", "json", "xml", "txt", "sql", "python", "javascript">>

\* the kind each recognised tag stands for, whatever its case
TagKind ==
  [t \in BlockTags |->
     CASE t = "csv" -> "csv"
       [] t \in {"json", "JSON"} -> "json"
       [] t = "xml" -> "xml"
       [] t \in {"txt", "text"} -> "txt"
       [] t = "sql" -> "sql"
       [] t = "python" -> "python"
       [] t \in {"javascript", "js"} -> "javascript"
       [] OTHER -> "none"]

\* the positions in dblocks of the blocks of kind k
BlocksOfKind(k) ==
  {i \in DOMAIN dblocks : dblocks[i].tag # "" /\ TagKind[dblocks[i].tag] = k}

\* the first block of kind k
FirstBlock(k) == dblocks[Min(BlocksOfKind(k))]

\* the kinds that have a block in the text
PresentKinds ==
  {i \in DOMAIN KindOrder : BlocksOfKind(KindOrder[i]) # {}}

\* the kinds whose first block in the text has a non-empty inner content
FilledKinds ==
  {i \in PresentKinds : FirstBlock(KindOrder[i]).content # ""}

\* dtext was put together from the segments of dblocks
FromBlocks == dblocks # << >>

----------------------------------------------------------------------------
(* Runs of the classifier on texts made of JSON tokens                      *)

MaxJsonPieces == 4

\* a filled fenced block, as one piece
JsBlock == Fence \o "js\n1\n" \o Fence

JsonPieces == {"{", "}", "[", "]", "1", ",1", "\"a\":", "\n",
               "not valid json", JsBlock}

\* fileInfo = detectDownloadableContent(generatedText) on a text one token
\* longer
AddJsonPiece ==
  /\ dcount < MaxJsonPieces
  /\ \E f \in JsonPieces :
       /\ dtext' = dtext \o f
       /\ dresult' = detectDownloadableContent(dtext \o f)
  /\ dcount' = dcount + 1
  /\ UNCHANGED <<serveVars, dblocks, clientVars>>

SpecJson == Init /\ [][AddJsonPiece]_vars

----------------------------------------------------------------------------
(* Properties of the bare-JSON rule and of the artifact record              *)

\* s starts with open and ends with close
Bracketed(s, open, close) ==
  /\ Len(s) >= 1
  /\ Ch(s, 1) = open
  /\ Ch(s, Len(s)) = close

\* texts that are JSON objects or arrays, and texts that are not
KnownJson == {"[1]", "[]", "{}", "[[1]]", "{\"a\":1}", "\n[1,1]\n",
              "[{}]", "[\n1]", "{\"a\":[]}"}

KnownNotJson == {"{not valid json", "{not valid json}", "[1", "1]", "{1}",
                 "[,1]", "1", "[1]1", "{\"a\":}", "[}", "{\"a\":1,1}", "\n"}

\* C13: when neither the CSV-like rule nor a fenced block matches, the text
\* yields a json artifact holding the trimmed text if and only if the trimmed
\* text is wrapped in {..} or [..] and parses as JSON; otherwise there is no
\* artifact (and the classifier returns in either case)
C13_BareJson ==
  (~CsvShape(dtext) /\ ~Includes(dtext, Fence)) =>
    LET trimmed == Trim(dtext)
        wrapped == Bracketed(trimmed, "{", "}") \/ Bracketed(trimmed, "[", "]")
    IN /\ (wrapped /\ JsonParses(trimmed)) =>
            dresult = [hasFile |-> TRUE, content |-> trimmed,
                       filename |-> "analysis_result.json",
                       extension |-> "json",
                       mimeType |-> "application/json", type |-> "json"]
       /\ ~(wrapped /\ JsonParses(trimmed)) => dresult = [hasFile |-> FALSE]
       /\ dtext \in KnownJson => dresult.hasFile
       /\ dtext \in KnownNotJson => ~dresult.hasFile

\* an array after a newline is the artifact, trimmed
C13_Witness ==
  /\ dtext = "\n[1]"
  /\ dresult.hasFile /\ dresult.type = "json"
  /\ dresult.content = "[1]"

\* extension and MIME type of each kind, as the specification lists them
KindTable ==
  [k \in {"csv", "json", "xml", "txt", "sql", "python", "javascript"} |->
     CASE k = "csv" -> [extension |-> "csv", mimeType |-> "text/csv"]
       [] k = "json" -> [extension |-> "json", mimeType |-> "application/json"]
       [] k = "xml" -> [extension |-> "xml", mimeType |-> "application/xml"]
       [] k = "txt" -> [extension |-> "txt", mimeType |-> "text/plain"]
       [] k = "sql" -> [extension |-> "sql", mimeType |-> "text/plain"]
       [] k = "python" -> [extension |-> "py", mimeType |-> "text/plain"]
       [] OTHER -> [extension |-> "js", mimeType |-> "text/plain"]]

\* C14: every artifact the classifier returns has hasFile true, a kind of
\* the seven, the extension and MIME type the table gives for the kind, and
\* the filename analysis_result.<extension>; the classifier returns one
\* record, so a response carries at most one artifact
C14_ArtifactRecord ==
  dresult.hasFile =>
    /\ DOMAIN dresult = {"hasFile", "content", "filename", "extension",
                         "mimeType", "type"}
    /\ dresult.type \in DOMAIN KindTable
    /\ dresult.extension = KindTable[dresult.type].extension
    /\ dresult.mimeType = KindTable[dresult.type].mimeType
    /\ dresult.filename = "analysis_result." \o KindTable[dresult.type].extension

\* a python block yields analysis_result.py
C14_Witness ==
  /\ FromBlocks
  /\ dresult.hasFile /\ dresult.type = "python"
  /\ dresult.filename = "analysis_result.py"
  /\ dresult.mimeType = "text/plain"

----------------------------------------------------------------------------
(* Properties of the reading of the reply                                   *)

\* the handler has answered with the result bundle
Succeeded == pc = "done" /\ response.kind = "result"

\* the usage object as the provider sent it
RawUsage == reply.body.data.usage

\* the count is there
Present(v) == v.t = "number"

\* the first count when it is there, else the second, else 0
FirstPresent(first, second) ==
  IF Present(first) THEN first.n ELSE IF Present(second) THEN second.n ELSE 0

ExpectedInput == FirstPresent(RawUsage.input_tokens, RawUsage.prompt_tokens)

ExpectedOutput ==
  FirstPresent(RawUsage.output_tokens, RawUsage.completion_tokens)

\* C15: inputTokens is usage.input_tokens when present, else
\* usage.prompt_tokens, else 0; outputTokens is usage.output_tokens when
\* present, else usage.completion_tokens, else 0; totalTokens is
\* usage.total_tokens when present, else inputTokens + outputTokens; a
\* missing usage object yields all zeros
C15_UsageNormalized ==
  Succeeded =>
    /\ response.statistics.inputTokens = ExpectedInput
    /\ response.statistics.outputTokens = ExpectedOutput
    /\ response.statistics.totalTokens =
         IF Present(RawUsage.total_tokens) THEN RawUsage.total_tokens.n
         ELSE ExpectedInput + ExpectedOutput
    /\ RawUsage.t # "object" =>
         /\ response.statistics.inputTokens = 0
         /\ response.statistics.outputTokens = 0
         /\ response.statistics.reasoningTokens = 0
         /\ response.statistics.totalTokens = 0

\* the raw usage { prompt_tokens: 10, completion_tokens: 5 } gives the
\* totalTokens 15
C15_Witness ==
  /\ Succeeded
  /\ RawUsage.t = "object"
  /\ ~Present(RawUsage.input_tokens) /\ ~Present(RawUsage.output_tokens)
  /\ ~Present(RawUsage.total_tokens)
  /\ RawUsage.prompt_tokens = JsNumber(10)
  /\ RawUsage.completion_tokens = JsNumber(5)
  /\ response.statistics.inputTokens = 10
  /\ response.statistics.outputTokens = 5
  /\ response.statistics.totalTokens = 15

\* C16: in the version with model selection, reasoningTokens is the
\* top-level usage.reasoning_tokens when it is present, otherwise
\* usage.completion_tokens_details.reasoning_tokens when present, otherwise
\* 0; the nested value never overrides a present top-level value
C16_ReasoningTokens ==
  (Succeeded /\ env.source = "model-aware") =>
    response.statistics.reasoningTokens =
      IF Present(RawUsage.reasoning_tokens) THEN RawUsage.reasoning_tokens.n
      ELSE IF RawUsage.completion_tokens_details.t = "object"
              /\ Present(RawUsage.completion_tokens_details.reasoning_tokens)
      THEN RawUsage.completion_tokens_details.reasoning_tokens.n
      ELSE 0

\* the top-level count is missing and the nested count 8 is reported
C16_Witness ==
  /\ Succeeded /\ env.source = "model-aware"
  /\ RawUsage.reasoning_tokens = JsUndefined
  /\ RawUsage.completion_tokens_details = Details(JsNumber(8))
  /\ response.statistics.reasoningTokens = 8

\* the fetch resolved with a success status
SuccessStatus == reply # NoValue /\ reply.settled = "resolved" /\ reply.status = 200

\* the body is the JSON object the handler expects
WellFormed == reply.body.json /\ reply.body.data.t = "object"

\* the counts the handler normalizes the usage of the reply to
Normalized == NormalizeUsage(UsageOf(reply.body.data), env.source)

\* the text extracted from the reply is empty and tokens were used
EmptyWithTokens ==
  /\ pc = "done" /\ SuccessStatus /\ WellFormed
  /\ ExtractText(reply.body.data) = ""
  /\ (Normalized.reasoningTokens > 0 \/ Normalized.outputTokens > 0)

\* C17 as stated: whenever the extracted text is empty and reasoningTokens
\* or outputTokens is positive, the response is a success result, its
\* generatedText is a non-empty diagnostic, and its statistics are the
\* normalized counts
C17_EmptyTextSubstituted ==
  EmptyWithTokens =>
    /\ response.kind = "result"
    /\ response.generatedText # ""
    /\ response.statistics.inputTokens = Normalized.inputTokens
    /\ response.statistics.outputTokens = Normalized.outputTokens
    /\ response.statistics.reasoningTokens = Normalized.reasoningTokens
    /\ response.statistics.totalTokens = Normalized.totalTokens

\* the max-output value of the request: the caller's maxTokens, or 2000
ConfiguredMax == IF req.maxTokens = Undefined THEN 2000 ELSE req.maxTokens[1]

\* the text names the value n as the max_completion_tokens
NamesMax(text, n) ==
  Includes(text, "max_completion_tokens (" \o ToString(n) \o ")")

C19_NeverRaises ==
  (pc = "done" /\ SuccessStatus) =>
    /\ response.kind = "result"
    /\ response.status = 200

\* the text of a part: the string, or its text when it has one, else its
\* content when it has one
PartValue(part) ==
  IF part.t = "string" THEN part.s
  ELSE IF part.text.t = "string" THEN part.text.s
  ELSE IF part.content.t = "string" THEN part.content.s
  ELSE ""

RECURSIVE Concat(_, _)
\* the texts of the parts from the i-th on, in order
Concat(parts, i) ==
  IF i > Len(parts) THEN "" ELSE PartValue(parts[i]) \o Concat(parts, i + 1)

\* a candidate: the string itself, or the concatenation of the parts
Candidate(v) ==
  IF v.t = "string" THEN v.s
  ELSE IF v.t = "array" THEN Concat(v.parts, 1)
  ELSE ""

\* the candidates of the reply in the fixed order
Candidates ==
  LET items == reply.body.data.choices.items
  IN IF items = << >>
     THEN <<"", "", Candidate(reply.body.data.output_text)>>
     ELSE <<Candidate(items[1].message.content), Candidate(items[1].content),
            Candidate(reply.body.data.output_text)>>

\* the first non-empty candidate, or the empty string
FirstNonEmpty ==
  LET filled == {i \in 1..3 : Candidates[i] # ""}
  IN IF filled = {} THEN "" ELSE Candidates[Min(filled)]

\* C20: the text of the result is the first non-empty candidate in the order
\* choices[0].message.content, choices[0].content, output_text (a string, or
\* the concatenation of the parts of an array); with no non-empty candidate
\* the extracted text is empty, so that without tokens the result's text is
\* empty
C20_FirstNonEmptyCandidate ==
  (Succeeded /\ WellFormed) =>
    /\ FirstNonEmpty # "" => response.generatedText = Trim(FirstNonEmpty)
    /\ (FirstNonEmpty = "" /\ response.statistics.reasoningTokens = 0
          /\ response.statistics.outputTokens = 0) =>
         response.generatedText = ""

\* message.content is the empty string, choices[0].content is an array and
\* output_text a string: the text is the concatenation of the array's parts
C20_Witness ==
  /\ Succeeded /\ WellFormed
  /\ Candidates = <<"", "LN", "O">>
  /\ reply.body.data.choices.items[1].message.content = JsString("")
  /\ response.generatedText = "LN"

\* C24 as stated: whenever the generatedText of a success result of the
\* version with model selection is the empty string, its reasoningTokens and
\* its outputTokens are both 0; a reply whose text is empty or only
\* whitespace while tokens were used is answered with the diagnostic
C24_EmptyResultNoTokens ==
  (Succeeded /\ env.source = "model-aware" /\ response.generatedText = "") =>
    /\ response.statistics.reasoningTokens = 0
    /\ response.statistics.outputTokens = 0

----------------------------------------------------------------------------
(* Properties of the provider's errors and of the order of the steps        *)

\* the fetch resolved with a status that is not a success and a body that
\* was read
ProviderFailed ==
  reply # NoValue /\ reply.settled = "resolved" /\ reply.status \notin 200..299

\* the call itself failed: the fetch rejected, or the error body broke off
TransportFailed ==
  /\ reply # NoValue
  /\ \/ reply.settled = "rejected"
     \/ reply.settled = "unreadable" /\ reply.status \notin 200..299

\* s ends with t
HasSuffix(s, t) ==
  Len(s) >= Len(t) /\ SubSeq(s, Len(s) - Len(t) + 1, Len(s)) = t

\* C21: after a non-success status the handler answers with that status and
\* an error message that holds the status and ends with the provider's body
\* as it was sent; the reply is never read as a result (the handler does not
\* come to read it, the response has no generatedText, fileInfo or
\* statistics); a transport failure is answered with an error response too
C21_ProviderError ==
  /\ (ProviderFailed \/ TransportFailed) => pc = "done"
  /\ ProviderFailed =>
       /\ response.status = reply.status
       /\ DOMAIN response = {"status", "kind", "error"}
       /\ response.kind = "error"
       /\ Includes(response.error, ToString(reply.status))
       /\ HasSuffix(response.error, " - " \o reply.errorData)
  /\ TransportFailed =>
       /\ response.kind = "error"
       /\ DOMAIN response = {"status", "kind", "error"}

\* a 429 whose body has blanks around it is passed on with the blanks
C21_Witness ==
  /\ ProviderFailed
  /\ reply.status = 429
  /\ reply.errorData = " {\"error\":{\"code\":429}}\n"
  /\ response.status = 429
  /\ response.error = "OpenAI API error: 429 -  {\"error\":{\"code\":429}}\n"

\* every selected file has a download from the farm-data folder on record
AllAttempted ==
  /\ req.selectedFiles # Undefined
  /\ \A k \in 1..Len(selectedFiles) : Downloaded(k, "farm-data") # {}

\* C22: the POST is issued at most once and never again; it is issued only
\* after getUser gave a user and every selected file was attempted; the
\* reply is read only after the fetch resolved with a success status; a
\* response once given is never replaced, and every run that started comes
\* to give one
C22_OneCallOneResponse ==
  /\ [](/\ llmCalls <= 1
        /\ llmCalls = 1 => /\ user # NoValue
                           /\ authResult # NoValue
                           /\ ~authResult[1].error /\ authResult[1].user # ""
                           /\ AllAttempted
        /\ pc = "received" => /\ llmCalls = 1
                              /\ reply.settled # "rejected"
                              /\ reply.status \in 200..299
        /\ (pc = "done") <=> (response # NoValue)
        /\ (pc = "done" /\ response.kind = "result") =>
             /\ llmCalls = 1
             /\ reply.status \in 200..299)
  /\ [][/\ llmCalls' # llmCalls => llmCalls = 0 /\ llmCalls' = 1 /\ pc' = "fetch"
        /\ response # NoValue => response' = response
        /\ pc = "done" => pc' = "done"
        /\ (response' # response /\ response'.kind = "result") =>
             pc = "received"]_vars
  /\ (pc = "start") ~> (pc = "done")

\* a run that posted once and ended with the result
C22_Witness ==
  /\ pc = "done" /\ response.kind = "result"
  /\ llmCalls = 1
  /\ Len(downloads) >= 2

----------------------------------------------------------------------------
(* The browser: the CSVUpload component and the bucket 'csv-files'          *)

\* the accounts that can be signed in in the browser
Accounts == {"u1", "u2"}

\* the names of the files picked in the file input
UploadNames == {"a.csv", "b c.csv"}

\* type FileType
FileTypes == {"farm-data", "certification-requirements"}

\* the values of Date.now()
Times == {0, 17}

\* the names the bucket lists
ListedNames == {"17_a.csv"}

\* the two versions of the component: the one that uploads to the user's
\* folder, and the one that uploads to one of two folders under it
Variants == {"flat", "two-folder"}

\* a request to the bucket, sent with the token of the account `by`
StorageRequest(op, by, path) == [op |-> op, by |-> by, path |-> path]

\* const fileName = `${user.id}/${fileType}/${Date.now()}_${file.name}`, and
\* `${user.id}/${Date.now()}_${file.name}` in the version without folders
UploadPath(variant, id, fileType, now, name) ==
  IF variant = "flat"
  THEN id \o "/" \o ToString(now) \o "_" \o name
  ELSE id \o "/" \o fileType \o "/" \o ToString(now) \o "_" \o name

\* mutant: the path is put together from the listed entry alone
DeletePath_Unscoped(id, uploadedFile) ==
  uploadedFile.type \o "/" \o uploadedFile.name

\* const filePath = `${user.id}/${uploadedFile.type}/${uploadedFile.name}`
DeletePath(id, uploadedFile) ==
  id \o "/" \o uploadedFile.type \o "/" \o uploadedFile.name

\* the list requests of fetchUploadedFiles
ListRequests(variant, id) ==
  IF variant = "flat"
  THEN {StorageRequest("list", id, id)}
  ELSE {StorageRequest("list", id, id \o "/" \o t) : t \in FileTypes}

\* what fetchUploadedFiles can leave in uploadedFiles: the entries listed,
\* each with the folder it was listed from, or what was there when a
\* request fails
Refreshed(variant, current) ==
  {current} \cup
  (IF variant = "flat"
   THEN SUBSET {[name |-> n, type |-> ""] : n \in ListedNames}
   ELSE SUBSET {[name |-> n, type |-> t] : n \in ListedNames, t \in FileTypes})

\* an account signs in
SignIn ==
  /\ \E u \in Accounts : session' = <<u>>
  /\ UNCHANGED <<serveVars, detectVars, upload, storageOps, pageVars>>

\* the account signs out
SignOut ==
  /\ session # NoValue
  /\ session' = NoValue
  /\ UNCHANGED <<serveVars, detectVars, upload, storageOps, pageVars>>

\* handleFileChange with a file
HandleFileChange ==
  /\ \E n \in UploadNames : upload' = [upload EXCEPT !.file = <<n>>]
  /\ UNCHANGED <<serveVars, detectVars, session, storageOps, pageVars>>

\* setFileType, of the radio group
SetFileType ==
  /\ upload.variant = "two-folder"
  /\ \E t \in FileTypes : upload' = [upload EXCEPT !.fileType = t]
  /\ UNCHANGED <<serveVars, detectVars, session, storageOps, pageVars>>

\* fetchUploadedFiles, as the effect of the mount runs it; without a user it
\* returns at once
FetchUploadedFiles ==
  /\ session # NoValue
  /\ \E listed \in Refreshed(upload.variant, upload.uploadedFiles) :
       upload' = [upload EXCEPT !.uploadedFiles = listed]
  /\ storageOps' = ListRequests(upload.variant, session[1])
  /\ UNCHANGED <<serveVars, detectVars, session, pageVars>>

\* handleUpload: without a file it returns, without a user it throws into
\* its own catch; else it uploads, and after a success clears the file and
\* refreshes the list
HandleUpload ==
  /\ upload.file # NoValue
  /\ session # NoValue
  /\ \E now \in Times, ok \in BOOLEAN :
       LET id == session[1]
           fileName == UploadPath(upload.variant, id, upload.fileType, now,
                                  upload.file[1])
       IN IF ok
          THEN /\ \E listed \in Refreshed(upload.variant, upload.uploadedFiles) :
                    upload' = [upload EXCEPT !.file = NoValue,
                                             !.uploadedFiles = listed]
               /\ storageOps' = {StorageRequest("upload", id, fileName)}
                                  \cup ListRequests(upload.variant, id)
          ELSE /\ storageOps' = {StorageRequest("upload", id, fileName)}
               /\ UNCHANGED upload
  /\ UNCHANGED <<serveVars, detectVars, session, pageVars>>

\* handleDelete(uploadedFile), of the version with two folders: without a
\* user it returns; else it removes, and after a success refreshes the list
HandleDelete ==
  /\ upload.variant = "two-folder"
  /\ session # NoValue
  /\ \E uploadedFile \in upload.uploadedFiles, ok \in BOOLEAN :
       LET id == session[1]
           filePath == DeletePath(id, uploadedFile)
       IN IF ok
          THEN /\ \E listed \in Refreshed(upload.variant, upload.uploadedFiles) :
                    upload' = [upload EXCEPT !.uploadedFiles = listed]
               /\ storageOps' = {StorageRequest("remove", id, filePath)}
                                  \cup ListRequests(upload.variant, id)
          ELSE /\ storageOps' = {StorageRequest("remove", id, filePath)}
               /\ UNCHANGED upload
  /\ UNCHANGED <<serveVars, detectVars, session, pageVars>>

\* the requests the function is sent in the runs with the bucket: a body
\* with at most one file
StorageRequests ==
  {r \in RunRequests : /\ r.method = "POST" /\ r.bodyOk /\ r.authHeader
                       /\ r.prompt = "sum it"
                       /\ r.model = Undefined
                       /\ r.selectedFiles # Undefined
                       /\ Len(r.selectedFiles[1]) <= 1}

\* a request has arrived at the function and the component is mounted, in
\* one of its versions
StorageStarted ==
  /\ pc = "start"
  /\ req \in StorageRequests
  /\ env \in [apiKey : {TRUE}, source : Sources]
  /\ idx = 0
  /\ fileContents = ""
  /\ openAIRequestBody = NoValue
  /\ llmCalls = 0
  /\ downloads = << >>
  /\ authAsked = 0
  /\ authResult = NoValue
  /\ user = NoValue
  /\ response = NoValue
  /\ reply = NoValue
  /\ dtext = ""
  /\ dcount = 0
  /\ dresult = [hasFile |-> FALSE]
  /\ dblocks = << >>
  /\ session = NoValue
  /\ upload \in [variant : Variants, file : {NoValue},
                 fileType : {"farm-data"}, uploadedFiles : {{}}]
  /\ storageOps = {}
  /\ ui = [selectedFiles |-> << >>, prompt |-> "", temperature |-> 7,
           maxTokens |-> 1000, llmOutput |-> "", analysisStatus |-> "idle",
           errorMessage |-> "", apiStatistics |-> NoValue]
  /\ timers = 0
  /\ invocations = 0
  /\ toast = NoValue

\* the steps that reach the bucket: the component's handlers, and the
\* function up to the end of its loop over the files
StorageNext ==
  \/ SignIn
  \/ SignOut
  \/ HandleFileChange
  \/ SetFileType
  \/ FetchUploadedFiles
  \/ HandleUpload
  \/ HandleDelete
  \/ Start
  \/ GetUser
  \/ DownloadFarm
  \/ DownloadCert

SpecStorage == StorageStarted /\ [][StorageNext]_vars

----------------------------------------------------------------------------
(* Properties of the paths of the bucket                                    *)

RECURSIVE PathSegments(_)
\* the segments of a path, between its slashes
PathSegments(path) ==
  LET slashes == {i \in 1..Len(path) : Ch(path, i) = "/"}
  IN IF slashes = {} THEN <<path>>
     ELSE <<SubSeq(path, 1, Min(slashes) - 1)>>
          \o PathSegments(SubSeq(path, Min(slashes) + 1, Len(path)))

Namespaced(path, id) == PathSegments(path)[1] = id

TwoFolderForm(path, id) ==
  LET segs == PathSegments(path)
  IN Len(segs) = 3 /\ segs[1] = id /\ segs[2] \in FileTypes /\ segs[3] # ""

\* C23: every path the browser uploads to, removes or lists, and every path
\* the function downloads from, has the id of the user the request is made
\* for as its first segment, and the id of no other user; the version with
\* two folders uploads to and removes <userId>/<category>/<name>, and the
\* function downloads from such paths, with category farm-data or
\* certification-requirements; the browser issues its requests for the
\* account signed in at that moment, the function for the user getUser
\* answered.
C23_PathsUnderOwner ==
  /\ [](/\ \A r \in storageOps :
             /\ r.by \in Accounts
             /\ Namespaced(r.path, r.by)
             /\ \A other \in Accounts \ {r.by} : ~Namespaced(r.path, other)
             /\ (upload.variant = "two-folder" /\ r.op \in {"upload", "remove"})
                  => TwoFolderForm(r.path, r.by)
        /\ \A j \in 1..Len(downloads) :
             /\ user # NoValue
             /\ authResult # NoValue
             /\ AuthOk(authResult[1])
             /\ user[1] = authResult[1].user
             /\ TwoFolderForm(downloads[j].path, user[1]))
  /\ [][storageOps' # storageOps =>
          /\ session # NoValue
          /\ session' = session
          /\ \A r \in storageOps' : r.by = session[1]]_vars

C23_Witness ==
  /\ upload.variant = "two-folder"
  /\ \E r \in storageOps : r.op = "remove" /\ r.by = "u2"
  /\ \E r \in storageOps : r.op = "list"
  /\ Len(downloads) = 2
  /\ downloads[2].folder = "certification-requirements"

----------------------------------------------------------------------------
(* The browser: the AnalyzeData page                                        *)

\* the most entries selectedFiles is let grow to
MaxSelected == 3

\* the most invocations, and the most timers, outstanding at a time
MaxInFlight == 2

\* what is typed into the prompt
PagePrompts == {"", " \n", "sum it"}

\* Array.prototype.includes
InList(list, x) == \E i \in 1..Len(list) : list[i] = x

\* handleFileSelection: what setSelectedFiles makes of prev
handleFileSelection(prev, fileName, isSelected) ==
  IF isSelected
  THEN Append(prev, fileName)
  ELSE SelectSeq(prev, LAMBDA f : f # fileName)

\* the Textarea's onChange
SetPrompt ==
  /\ \E p \in PagePrompts : ui' = [ui EXCEPT !.prompt = p]
  /\ UNCHANGED <<serveVars, detectVars, storageVars, timers, invocations, toast>>

\* a click on the row of a file, outside its checkbox
ClickRow ==
  /\ \E fileName \in FileNames :
       LET next == handleFileSelection(ui.selectedFiles, fileName,
                                       ~InList(ui.selectedFiles, fileName))
       IN /\ Len(next) <= MaxSelected
          /\ ui' = [ui EXCEPT !.selectedFiles = next]
  /\ UNCHANGED <<serveVars, detectVars, storageVars, timers, invocations, toast>>

\* a click on the checkbox of a row: onCheckedChange with the new value
\* and, when the click bubbles to the row, the row's onClick of the same
\* render, both as updates of the same batch
ClickCheckbox ==
  /\ \E fileName \in FileNames, bubbles \in BOOLEAN :
       LET isSelected == ~InList(ui.selectedFiles, fileName)
           first == handleFileSelection(ui.selectedFiles, fileName, isSelected)
           next == IF bubbles
                   THEN handleFileSelection(first, fileName, isSelected)
                   ELSE first
       IN /\ Len(next) <= MaxSelected
          /\ ui' = [ui EXCEPT !.selectedFiles = next]
  /\ UNCHANGED <<serveVars, detectVars, storageVars, timers, invocations, toast>>

\* handleEdit
HandleEdit ==
  /\ ui' = [ui EXCEPT !.prompt = "", !.llmOutput = "",
                      !.analysisStatus = "idle", !.errorMessage = "",
                      !.apiStatistics = NoValue]
  /\ UNCHANGED <<serveVars, detectVars, storageVars, timers, invocations, toast>>

\* mutant: the prompt is not looked at
HandleAnalyze_AnyPrompt ==
  /\ IF Len(ui.selectedFiles) = 0
     THEN /\ toast' = <<"Please select at least one data file first">>
          /\ UNCHANGED <<ui, timers, invocations>>
     ELSE /\ timers < MaxInFlight
          /\ invocations < MaxInFlight
          /\ ui' = [ui EXCEPT !.analysisStatus = "submitted",
                              !.errorMessage = "", !.llmOutput = "",
                              !.apiStatistics = NoValue]
          /\ toast' = <<"Analysis submitted!">>
          /\ timers' = timers + 1
          /\ invocations' = invocations + 1
  /\ UNCHANGED <<serveVars, detectVars, storageVars>>

\* handleAnalyze, up to its await: the two returns, else the state is
\* reset, the timer is set and the function is invoked
HandleAnalyze ==
  /\ IF Len(ui.selectedFiles) = 0
     THEN /\ toast' = <<"Please select at least one data file first">>
          /\ UNCHANGED <<ui, timers, invocations>>
     ELSE IF Trim(ui.prompt) = ""
     THEN /\ toast' = <<"Please enter a prompt">>
          /\ UNCHANGED <<ui, timers, invocations>>
     ELSE /\ timers < MaxInFlight
          /\ invocations < MaxInFlight
          /\ ui' = [ui EXCEPT !.analysisStatus = "submitted",
                              !.errorMessage = "", !.llmOutput = "",
                              !.apiStatistics = NoValue]
          /\ toast' = <<"Analysis submitted!">>
          /\ timers' = timers + 1
          /\ invocations' = invocations + 1
  /\ UNCHANGED <<serveVars, detectVars, storageVars>>

\* the callback of setTimeout(..., 500)
TimerFires ==
  /\ timers > 0
  /\ timers' = timers - 1
  /\ ui' = [ui EXCEPT !.analysisStatus = "in-progress"]
  /\ UNCHANGED <<serveVars, detectVars, storageVars, invocations, toast>>

\* the statistics of a result
SampleStatistics ==
  [processingTime |-> 124, inputTokens |-> 10, outputTokens |-> 5,
   totalTokens |-> 15]

\* what supabase.functions.invoke resolves with: { error } with or without
\* a message, data with an error, or the data of a result
InvokeOutcomes ==
  {[kind |-> "error", message |-> m, generatedText |-> ""] :
     m \in {"", "Edge Function returned a non-2xx status code"}}
  \cup {[kind |-> "data.error", message |-> "No files could be read",
         generatedText |-> ""]}
  \cup {[kind |-> "data", message |-> "", generatedText |-> g] :
          g \in {"", "Yield rose."}}

\* error.message of what the try block throws
ThrownMessage(o) ==
  IF o.kind = "error"
  THEN (IF o.message = "" THEN "Failed to analyze data" ELSE o.message)
  ELSE o.message

\* handleAnalyze from its await on: the result is shown, or the catch
\* block shows the error
InvocationSettles ==
  /\ invocations > 0
  /\ invocations' = invocations - 1
  /\ \E o \in InvokeOutcomes :
       IF o.kind = "data"
       THEN /\ ui' = [ui EXCEPT !.analysisStatus = "successful",
                                !.llmOutput = o.generatedText,
                                !.apiStatistics = <<SampleStatistics>>]
            /\ toast' = <<"Analysis completed successfully!">>
       ELSE /\ ui' = [ui EXCEPT
                        !.analysisStatus = "error",
                        !.errorMessage =
                          IF ThrownMessage(o) = ""
                          THEN "An unexpected error occurred during analysis"
                          ELSE ThrownMessage(o)]
            /\ toast' = <<"Analysis failed">>
  /\ UNCHANGED <<serveVars, detectVars, storageVars, timers>>

\* disabled={selectedFiles.length === 0 || !prompt.trim() ||
\*           analysisStatus === 'in-progress'}
AnalyzeDisabled ==
  \/ Len(ui.selectedFiles) = 0
  \/ Trim(ui.prompt) = ""
  \/ ui.analysisStatus = "in-progress"

\* a click on the Analyze button
ClickAnalyze == ~AnalyzeDisabled /\ HandleAnalyze

\* {prompt.trim() && analysisStatus !== 'in-progress' && (<Button ...>)}
EditShown == Trim(ui.prompt) # "" /\ ui.analysisStatus # "in-progress"

\* a click on the Edit button
ClickEdit == EditShown /\ HandleEdit

\* what happens on the page
PageNext ==
  \/ SetPrompt
  \/ ClickRow
  \/ ClickCheckbox
  \/ ClickAnalyze
  \/ ClickEdit
  \/ TimerFires
  \/ InvocationSettles

SpecPage == Init /\ [][PageNext]_vars

\* the page when every timer fires and every invocation settles
SpecPageFair ==
  Init /\ [][PageNext]_vars /\ WF_vars(TimerFires) /\ WF_vars(InvocationSettles)

\* the handlers called in whatever state the page is in
CallsNext ==
  \/ SetPrompt
  \/ ClickRow
  \/ ClickCheckbox
  \/ HandleAnalyze
  \/ HandleEdit
  \/ TimerFires
  \/ InvocationSettles

SpecCalls == Init /\ [][CallsNext]_vars

----------------------------------------------------------------------------
(* Properties of the AnalyzeData page                                       *)

\* nothing is selected, or the prompt is blank
NothingToAnalyze == Len(ui.selectedFiles) = 0 \/ Trim(ui.prompt) = ""

\* C25: the function is invoked only from a state with a selected file and
\* a prompt that is not blank; handleAnalyze called with no selected file
\* or with a blank prompt invokes nothing, sets no timer, and leaves
\* analysisStatus, llmOutput, errorMessage and apiStatistics as they are.
C25_GuardedAnalyze ==
  [][/\ invocations' > invocations => ~NothingToAnalyze
     /\ (NothingToAnalyze /\ HandleAnalyze) =>
          /\ invocations' = invocations
          /\ timers' = timers
          /\ ui'.analysisStatus = ui.analysisStatus
          /\ ui'.llmOutput = ui.llmOutput
          /\ ui'.errorMessage = ui.errorMessage
          /\ ui'.apiStatistics = ui.apiStatistics]_vars

C25_Witness ==
  /\ toast = <<"Please enter a prompt">>
  /\ ui.prompt = " \n"
  /\ Len(ui.selectedFiles) > 0
  /\ ui.analysisStatus = "successful"
  /\ ui.llmOutput # ""
  /\ invocations = 0

\* the outcome of an analysis is shown
Final == ui.analysisStatus \in {"successful", "error"}

\* C26 as stated: after a submission analysisStatus becomes 'successful' or
\* 'error'; once it is, only a click on Analyze or on Edit changes it,
\* whichever of the timer and the invocation comes first; and the page is
\* never 'in-progress' with no invocation outstanding.
C26_StatusSettles ==
  /\ [](ui.analysisStatus = "in-progress" => invocations > 0)
  /\ [][(Final /\ ui'.analysisStatus # ui.analysisStatus)
          => (ClickAnalyze \/ ClickEdit)]_vars
  /\ (ui.analysisStatus = "submitted") ~> Final

\* C27 as stated: at most one invocation of the page is outstanding at any
\* time, and while one is the Analyze button is disabled, the 'submitted'
\* phase included.
C27_OneInFlight ==
  /\ invocations <= 1
  /\ invocations > 0 => AnalyzeDisabled

\* C28 as stated: an errorMessage never stands next to an llmOutput or to
\* apiStatistics; with 'error' llmOutput is empty and apiStatistics null,
\* with 'successful' errorMessage is empty.
C28_OutcomeConsistent ==
  /\ ui.errorMessage # "" => (ui.llmOutput = "" /\ ui.apiStatistics = NoValue)
  /\ ui.analysisStatus = "error" =>
       (ui.llmOutput = "" /\ ui.apiStatistics = NoValue)
  /\ ui.analysisStatus = "successful" => ui.errorMessage = ""

\* every name is in the list at most once
NoDuplicates(list) ==
  \A i, j \in 1..Len(list) : i # j => list[i] # list[j]

\* C29 as stated: selectedFiles holds each file name at most once; a step
\* that changes it either appends one name and leaves the entries before it
\* as they are, or removes one name entirely and leaves the others in
\* their order.
C29_SelectionHasNoDuplicates ==
  /\ [](NoDuplicates(ui.selectedFiles))
  /\ [][ui'.selectedFiles # ui.selectedFiles =>
          \E fileName \in FileNames :
            \/ ui'.selectedFiles = Append(ui.selectedFiles, fileName)
            \/ /\ ~InList(ui'.selectedFiles, fileName)
               /\ ui'.selectedFiles =
                    SelectSeq(ui.selectedFiles, LAMBDA f : f # fileName)]_vars

----------------------------------------------------------------------------
(* Properties of the content of the artifact                                *)

\* no white space at either end
Trimmed(s) == s = "" \/ (~IsSpace(Ch(s, 1)) /\ ~IsSpace(Ch(s, Len(s))))

\* only white space, or nothing at all
Blank(s) == \A i \in 1..Len(s) : IsSpace(Ch(s, i))

\* C30: the content of the artifact is a run of consecutive characters of
\* the text with no white space at either end, hence of the trimmed text;
\* a text that is empty or only white space yields no artifact.
C30_ContentIsTrimmedSubstring ==
  /\ dresult.hasFile =>
       /\ Includes(dtext, dresult.content)
       /\ Trimmed(dresult.content)
       /\ Includes(Trim(dtext), dresult.content)
  /\ Blank(dtext) => ~dresult.hasFile

\* a CSV-like text that ends with a line break
C30_Witness ==
  /\ dtext = "1,1\n1\n"
  /\ dresult.hasFile
  /\ dresult.content = "1,1\n1"

====
